---- MODULE Spec2Model ----
(***************************************************************************)
(* EdgeAnalysis: the scoring and analytics engine of the profile page.     *)
(*                                                                         *)
(*   calculateMatchImpact   Impact Score of one participant (0-10)         *)
(*   rankPlayersInMatch     EdgeScore ranking of the 10 participants       *)
(*   recentAnalysis /       the recent (first 20) and season (all)         *)
(*   seasonAnalysis         aggregation of the fetched matches             *)
(*   feedback, getStability the rule table and the stability label         *)
(*                                                                         *)
(* JavaScript numbers are modelled as exact fractions <<n, d>> extended    *)
(* with the IEEE special values (d = 0): NaN, +Infinity, -Infinity.  The   *)
(* one place where binary64 rounding changes a displayed integer, the      *)
(* win-rate percentage Math.round((wins / games) * 100), is computed bit   *)
(* by bit as binary64 does.                                                *)
(***************************************************************************)
EXTENDS Integers, Sequences, FiniteSets, TLC

----------------------------------------------------------------------------
(* JavaScript Number: exact fractions with NaN and the infinities.          *)

RECURSIVE GCD(_, _)
GCD(a, b) ==
  IF b = 0 THEN a ELSE GCD(b, a % b)

Abs(x) ==
  IF x < 0 THEN -x ELSE x

NaN ==
  <<0, 0>>

PosInf ==
  <<1, 0>>

NegInf ==
  <<-1, 0>>

\* n/d in lowest terms, d > 0
Frac(n, d) ==
  LET g == GCD(Abs(n), d)
  IN  <<n \div g, d \div g>>

Num(i) ==
  <<i, 1>>

IsNaN(a) ==
  a = NaN

IsFinite(a) ==
  a[2] # 0

Sign(a) ==
  IF a[1] > 0 THEN 1 ELSE IF a[1] < 0 THEN -1 ELSE 0

Neg(a) ==
  <<-a[1], a[2]>>

\* a + b
Add(a, b) ==
  IF IsNaN(a) \/ IsNaN(b) THEN NaN
  ELSE IF ~IsFinite(a) THEN (IF ~IsFinite(b) /\ b # a THEN NaN ELSE a)
  ELSE IF ~IsFinite(b) THEN b
  ELSE LET g == GCD(a[2], b[2])
       IN  Frac(a[1] * (b[2] \div g) + b[1] * (a[2] \div g), (a[2] \div g) * b[2])

\* a - b
Sub(a, b) ==
  Add(a, Neg(b))

\* a * b
Mul(a, b) ==
  IF IsNaN(a) \/ IsNaN(b) THEN NaN
  ELSE IF ~IsFinite(a) \/ ~IsFinite(b)
    THEN (IF Sign(a) * Sign(b) = 0 THEN NaN ELSE <<Sign(a) * Sign(b), 0>>)
  ELSE LET g1 == GCD(Abs(a[1]), b[2])
           g2 == GCD(Abs(b[1]), a[2])
       IN  <<(a[1] \div g1) * (b[1] \div g2), (a[2] \div g2) * (b[2] \div g1)>>

\* a / b : x / 0 is an infinity, 0 / 0 is NaN (the zero is +0)
Div(a, b) ==
  IF IsNaN(a) \/ IsNaN(b) THEN NaN
  ELSE IF ~IsFinite(b) THEN (IF IsFinite(a) THEN Num(0) ELSE NaN)
  ELSE IF b[1] = 0 THEN (IF Sign(a) = 0 THEN NaN ELSE <<Sign(a), 0>>)
  ELSE IF ~IsFinite(a) THEN <<Sign(a) * Sign(b), 0>>
  ELSE Mul(a, <<Sign(b) * b[2], Abs(b[1])>>)

\* floor of a finite fraction
Floor(a) ==
  a[1] \div a[2]

\* a < b on finite fractions, comparing integer parts first and then the
\* remainders by the continued-fraction step, so no product is formed
RECURSIVE FracLt(_, _)
FracLt(a, b) ==
  LET fa == Floor(a)
      fb == Floor(b)
      ra == a[1] - fa * a[2]
      rb == b[1] - fb * b[2]
  IN  IF fa # fb THEN fa < fb
      ELSE IF rb = 0 THEN FALSE
      ELSE IF ra = 0 THEN TRUE
      ELSE FracLt(<<b[2], rb>>, <<a[2], ra>>)

\* a < b : false when either side is NaN
Lt(a, b) ==
  IF IsNaN(a) \/ IsNaN(b) THEN FALSE
  ELSE IF a = b THEN FALSE
  ELSE IF ~IsFinite(a) THEN a = NegInf
  ELSE IF ~IsFinite(b) THEN b = PosInf
  ELSE FracLt(a, b)

\* a <= b
Le(a, b) ==
  IF IsNaN(a) \/ IsNaN(b) THEN FALSE ELSE a = b \/ Lt(a, b)

\* a > b
Gt(a, b) ==
  Lt(b, a)

\* a >= b
Ge(a, b) ==
  Le(b, a)

\* Math.min(a, b)
MathMin(a, b) ==
  IF IsNaN(a) \/ IsNaN(b) THEN NaN ELSE IF Lt(b, a) THEN b ELSE a

\* Math.max(a, b)
MathMax(a, b) ==
  IF IsNaN(a) \/ IsNaN(b) THEN NaN ELSE IF Lt(a, b) THEN b ELSE a

----------------------------------------------------------------------------
(* Math.round((wins / games) * 100) in binary64.  The significand of a      *)
(* double has 53 bits: a leading digit and four limbs of 13 bits.  The      *)
(* quotient and the product are each rounded to nearest, ties to even, as   *)
(* IEEE 754 division and multiplication do.                                 *)

RECURSIVE Pow2(_)
Pow2(n) ==
  IF n = 0 THEN 1 ELSE 2 * Pow2(n - 1)

Limb ==
  Pow2(13)

\* the least e >= 0 with w * 2^e >= t  (0 < w)
RECURSIVE ShiftToOne(_, _)
ShiftToOne(w, t) ==
  IF w >= t THEN 0 ELSE 1 + ShiftToOne(2 * w, t)

\* the number of bits of n > 0
RECURSIVE BitLength(_)
BitLength(n) ==
  IF n = 0 THEN 0 ELSE 1 + BitLength(n \div 2)

\* Math.round((wins / games) * 100) for 0 <= wins <= games, games > 0
RoundPercent(wins, games) ==
  IF wins = 0 THEN 0
  ELSE IF wins = games THEN 100
  ELSE
    LET \* wins / games = 1.f * 2^(-e), e >= 1: the 52 bits of f by long
        \* division, 13 bits at a time
        e == ShiftToOne(wins, games)
        r0 == wins * Pow2(e) - games
        d1 == (r0 * Limb) \div games
        r1 == (r0 * Limb) % games
        d2 == (r1 * Limb) \div games
        r2 == (r1 * Limb) % games
        d3 == (r2 * Limb) \div games
        r3 == (r2 * Limb) % games
        d4 == (r3 * Limb) \div games
        r4 == (r3 * Limb) % games
        \* the next bit and what is left decide the rounding of the quotient
        g == IF 2 * r4 >= games THEN 1 ELSE 0
        r5 == 2 * r4 - g * games
        up1 == g = 1 /\ (r5 # 0 \/ (d4 % 2) = 1)
        m4 == d4 + (IF up1 THEN 1 ELSE 0)
        m3 == d3 + (m4 \div Limb)
        m2 == d2 + (m3 \div Limb)
        m1 == d1 + (m2 \div Limb)
        q0 == 1 + (m1 \div Limb)
        \* the exact product by 100, limb by limb
        x4 == (m4 % Limb) * 100
        x3 == (m3 % Limb) * 100 + (x4 \div Limb)
        x2 == (m2 % Limb) * 100 + (x3 \div Limb)
        x1 == (m1 % Limb) * 100 + (x2 \div Limb)
        top == q0 * 100 + (x1 \div Limb)
        o4 == x4 % Limb
        \* the product has BitLength(top) + 52 bits: k of them are dropped
        k == BitLength(top) - 1
        low == o4 % Pow2(k)
        up2 == /\ low >= Pow2(k - 1)
               /\ ((low % Pow2(k - 1)) # 0 \/ ((o4 \div Pow2(k)) % 2) = 1)
        carried == /\ up2
                   /\ o4 \div Pow2(k) = Pow2(13 - k) - 1
                   /\ x3 % Limb = Limb - 1
                   /\ x2 % Limb = Limb - 1
                   /\ x1 % Limb = Limb - 1
        topR == top + (IF carried THEN 1 ELSE 0)
        \* the value is topR * 2^(52 - 52 - e) plus lower bits: Math.round
        \* adds the first bit behind the binary point to the integer part
    IN  (topR \div Pow2(e)) + ((topR \div Pow2(e - 1)) % 2)

----------------------------------------------------------------------------
(* State.                                                                   *)

VARIABLES
  pc,              \* position of the computation under study
  p,               \* calculateMatchImpact: the participant argument
  gameDuration,    \* calculateMatchImpact / rankPlayersInMatch: seconds
  impactScore,     \* calculateMatchImpact: the value returned
  participants,    \* rankPlayersInMatch: match.info.participants
  teams,           \* rankPlayersInMatch: the optional match.info.teams
  rankings,        \* rankPlayersInMatch: the Map returned, as a function
  upstream,        \* the responses of /api/riot/match for matchIds[0..]
  matchesData,     \* ProfilePage state: the fetched matches
  matchesLoading,  \* ProfilePage state
  view,            \* what the render computes from matchesData
  proxy,           \* the proxy server: clock, lastRequestTime, matchCache, requests
  home             \* App and HomePage: the search form, its flow and the view shown

vars ==
  <<pc, p, gameDuration, impactScore, participants, teams, rankings,
    upstream, matchesData, matchesLoading, view, proxy, home>>

----------------------------------------------------------------------------
(* MatchParticipant: the fields the scoring code reads.                     *)

NoParticipant ==
  [ puuid |-> "", championName |-> "", champLevel |-> 0,
    kills |-> 0, deaths |-> 0, assists |-> 0, win |-> FALSE,
    totalMinionsKilled |-> 0, neutralMinionsKilled |-> 0,
    visionScore |-> 0, visionWardsBoughtInGame |-> 0,
    wardsPlaced |-> 0, wardsKilled |-> 0, goldEarned |-> 0,
    totalDamageDealtToChampions |-> 0, totalDamageTaken |-> 0,
    teamPosition |-> "", teamId |-> 100,
    doubleKills |-> 0, tripleKills |-> 0, quadraKills |-> 0, pentaKills |-> 0,
    turretKills |-> 0, inhibitorKills |-> 0, dragonKills |-> 0, baronKills |-> 0,
    firstBloodKill |-> FALSE, firstBloodAssist |-> FALSE,
    firstTowerKill |-> FALSE, firstTowerAssist |-> FALSE,
    objectivesStolen |-> 0, objectivesStolenAssists |-> 0,
    damageDealtToObjectives |-> 0, damageDealtToTurrets |-> 0,
    damageDealtToBuildings |-> 0,
    timeCCingOthers |-> 0, totalHealsOnTeammates |-> 0,
    totalDamageShieldedOnTeammates |-> 0,
    longestTimeSpentLiving |-> 0, soloKills |-> 0, largestKillingSpree |-> 0 ]

----------------------------------------------------------------------------
(* calculateMatchImpact                                                     *)

\* (mutant) the early return taken for a negative duration only
ImpactGuard_Strict(minutes) ==
  Lt(minutes, Num(0))

\* the guard of the early return: minutes <= 0
ImpactGuard(minutes) ==
  Le(minutes, Num(0))

\* (mutant) the final clamp without its upper end
ImpactClamp_NoUpper(total) ==
  MathMax(total, Num(0))

\* the final clamp: Math.min(Math.max(total, 0), 10)
ImpactClamp(total) ==
  MathMin(MathMax(total, Num(0)), Num(10))

\* (mutant) the death penalty without its cap
ImpactDeathPenalty_NoCap(q, minutes) ==
  Mul(Div(Num(q.deaths), minutes), Frac(4, 5))

\* Math.min((p.deaths / minutes) * 0.8, 2)
ImpactDeathPenalty(q, minutes) ==
  MathMin(Mul(Div(Num(q.deaths), minutes), Frac(4, 5)), Num(2))

\* the sum of the eight terms minus the death penalty, for minutes > 0
ImpactTotal(q, minutes) ==
  LET kda == IF q.deaths = 0 THEN Num(q.kills + q.assists)
             ELSE Div(Num(q.kills + q.assists), Num(q.deaths))
      kdaScore == MathMin(Div(kda, Num(3)), Frac(5, 2))
      csPerMin == Div(Num(q.totalMinionsKilled + q.neutralMinionsKilled), minutes)
      csScore == MathMin(Div(csPerMin, Num(7)), Frac(3, 2))
      visionPerMin == Div(Num(q.visionScore), minutes)
      visionScore == MathMin(Div(visionPerMin, Frac(3, 2)), Num(1))
      dmgPerMin == Div(Num(q.totalDamageDealtToChampions), minutes)
      dmgScore == MathMin(Div(dmgPerMin, Num(800)), Frac(3, 2))
      goldPerMin == Div(Num(q.goldEarned), minutes)
      goldScore == MathMin(Div(goldPerMin, Num(450)), Num(1))
      objKills == Add(Add(Mul(Num(q.turretKills), Frac(3, 10)),
                          Mul(Num(q.inhibitorKills), Frac(1, 2))),
                      Add(Mul(Num(q.dragonKills), Frac(3, 5)),
                          Mul(Num(q.baronKills), Num(1))))
      objScore == MathMin(objKills, Frac(3, 2))
      objDmgPerMin == Div(Num(q.damageDealtToObjectives), minutes)
      objDmgScore == MathMin(Div(objDmgPerMin, Num(600)), Num(1))
      winBonus == IF q.win THEN Num(1) ELSE Num(0)
  IN  Sub(Add(Add(Add(Add(Add(Add(Add(kdaScore, csScore), visionScore), dmgScore),
                      goldScore), objScore), objDmgScore), winBonus),
          ImpactDeathPenalty(q, minutes))

\* the body of calculateMatchImpact after "const minutes = gameDuration / 60"
ImpactOfMinutes(q, minutes) ==
  IF ImpactGuard(minutes) THEN Num(0)
  ELSE ImpactClamp(ImpactTotal(q, minutes))

calculateMatchImpact(q, duration) ==
  ImpactOfMinutes(q, Div(Num(duration), Num(60)))

\* calculateMatchImpact(p, undefined): the field gameDuration is missing, and
\* undefined / 60 is NaN
calculateMatchImpact_Undefined(q) ==
  ImpactOfMinutes(q, Div(NaN, Num(60)))

----------------------------------------------------------------------------
(* rankPlayersInMatch                                                       *)

RECURSIVE SeqSum(_)
SeqSum(s) ==
  IF s = <<>> THEN 0 ELSE Head(s) + SeqSum(Tail(s))

Max(a, b) ==
  IF a < b THEN b ELSE a

Categories ==
  {"combat", "damage", "objectives", "economy", "vision", "utility",
   "clutch", "impact", "winContribution"}

\* roleWeights[role] || roleWeights.DEFAULT, in hundredths
roleWeights(role) ==
  LET W(c, d, o, e, v, u, cl, i, w) ==
        [combat |-> Frac(c, 100), damage |-> Frac(d, 100),
         objectives |-> Frac(o, 100), economy |-> Frac(e, 100),
         vision |-> Frac(v, 100), utility |-> Frac(u, 100),
         clutch |-> Frac(cl, 100), impact |-> Frac(i, 100),
         winContribution |-> Frac(w, 100)]
  IN  CASE role = "TOP"     -> W(115, 100, 110, 100,  85, 115,  95, 100, 100)
        [] role = "JUNGLE"  -> W(100,  90, 120,  85, 110,  95, 115, 100, 100)
        [] role = "MIDDLE"  -> W(110, 115,  95, 100,  85,  85, 110, 100, 100)
        [] role = "BOTTOM"  -> W(100, 110,  95, 105,  85,  85,  95, 100, 100)
        [] role = "UTILITY" -> W( 95,  80,  90,  85, 115, 115, 105, 100, 100)
        [] OTHER            -> W(100, 100, 100, 100, 100, 100, 100, 100, 100)

categoryMax ==
  [combat |-> 25, damage |-> 18, objectives |-> 20, economy |-> 10,
   vision |-> 8, utility |-> 12, clutch |-> 12, impact |-> 10,
   winContribution |-> 10]

\* the eight match-wide totals, each Math.max(sum, 1)
Totals(ps) ==
  LET S(F(_)) == Max(SeqSum([i \in 1..Len(ps) |-> F(ps[i])]), 1)
  IN  [totalKills    |-> S(LAMBDA q: q.kills),
       totalDmg      |-> S(LAMBDA q: q.totalDamageDealtToChampions),
       totalGold     |-> S(LAMBDA q: q.goldEarned),
       totalVision   |-> S(LAMBDA q: q.visionScore),
       totalDmgTaken |-> S(LAMBDA q: q.totalDamageTaken),
       totalObjDmg   |-> S(LAMBDA q: q.damageDealtToObjectives),
       totalCC       |-> S(LAMBDA q: q.timeCCingOthers),
       totalHealing  |-> S(LAMBDA q: q.totalHealsOnTeammates
                                      + q.totalDamageShieldedOnTeammates)]

\* the optional argument teams: left out (undefined), or a list of teams
TeamsOmitted ==
  [given |-> FALSE, list |-> <<>>]

TeamsGiven(list) ==
  [given |-> TRUE, list |-> list]

\* one entry of match.info.teams
Team(tid, win, barons, dragons, towers) ==
  [teamId |-> tid, win |-> win,
   objectives |-> [baron |-> [kills |-> barons], dragon |-> [kills |-> dragons],
                   tower |-> [kills |-> towers]]]

\* teamObjectives after "if (teams) teams.forEach(t => ...)": a key for every
\* team id of the list, written by the last entry with that id
teamObjectives(tm) ==
  IF ~tm.given THEN <<>>
  ELSE [tid \in { tm.list[i].teamId : i \in 1..Len(tm.list) } |->
          LET last == CHOOSE i \in 1..Len(tm.list) :
                        /\ tm.list[i].teamId = tid
                        /\ \A j \in (i + 1)..Len(tm.list) : tm.list[j].teamId # tid
          IN  [barons |-> tm.list[last].objectives.baron.kills,
               dragons |-> tm.list[last].objectives.dragon.kills,
               towers |-> tm.list[last].objectives.tower.kills]]

\* teamKills[tid], teamGold[tid], teamDmg[tid] after the forEach
teamKills(ps, tid) ==
  SeqSum([i \in 1..Len(ps) |-> IF ps[i].teamId = tid THEN ps[i].kills ELSE 0])

teamGold(ps, tid) ==
  SeqSum([i \in 1..Len(ps) |-> IF ps[i].teamId = tid THEN ps[i].goldEarned ELSE 0])

teamDmg(ps, tid) ==
  SeqSum([i \in 1..Len(ps) |->
            IF ps[i].teamId = tid THEN ps[i].totalDamageDealtToChampions ELSE 0])

\* the team sum taken as the divisor without its floor
TeamDenominator_NoFloor(x) ==
  x

\* Math.max(x || 1, 1)
TeamDenominator(x) ==
  Max(IF x = 0 THEN 1 ELSE x, 1)

\* Math.min(x, 1) * k
Scaled(x, k) ==
  Mul(MathMin(x, Num(1)), Num(k))

\* 1) combat
Combat(q, minutes, myTeamKills) ==
  LET kda == IF q.deaths = 0 THEN Mul(Num(q.kills + q.assists), Frac(3, 2))
             ELSE Div(Num(q.kills + q.assists), Num(q.deaths))
      killParticipation == Div(Num(q.kills + q.assists), Num(myTeamKills))
      kdaPts == Scaled(Div(kda, Num(5)), 12)
      kpPts == Scaled(killParticipation, 6)
      multiKillPts ==
        MathMin(Add(Add(Mul(Num(q.doubleKills), Frac(1, 2)),
                        Mul(Num(q.tripleKills), Frac(3, 2))),
                    Add(Mul(Num(q.quadraKills), Num(3)),
                        Mul(Num(q.pentaKills), Num(7)))), Num(7))
      soloPts == MathMin(Mul(Num(q.soloKills), Frac(6, 5)), Num(4))
      spreePts == MathMin(Mul(Num(q.largestKillingSpree), Frac(3, 10)), Num(3))
      deathPenalty == MathMin(Mul(Div(Num(q.deaths), minutes), Frac(5, 2)), Num(7))
  IN  MathMax(Sub(Add(Add(Add(Add(kdaPts, kpPts), multiKillPts), soloPts), spreePts),
                  deathPenalty), Num(0))

\* 2) damage
Damage(q, minutes, tot, myTeamDmg) ==
  LET dmg == Num(q.totalDamageDealtToChampions)
      dmgSharePts == Scaled(Div(Div(dmg, Num(tot.totalDmg)), Frac(15, 100)), 10)
      dpmPts == Scaled(Div(Div(dmg, minutes), Num(700)), 5)
      teamDmgSharePts == Scaled(Div(Div(dmg, Num(myTeamDmg)), Frac(1, 4)), 3)
  IN  Add(Add(dmgSharePts, dpmPts), teamDmgSharePts)

\* 3) objectives
Objectives(q, tot) ==
  LET turretPts == MathMin(Mul(Num(q.turretKills), Frac(3, 2)), Num(4))
      inhibPts == MathMin(Mul(Num(q.inhibitorKills), Num(2)), Num(3))
      dragonPts == MathMin(Mul(Num(q.dragonKills), Frac(3, 2)), Num(3))
      baronPts == MathMin(Mul(Num(q.baronKills), Frac(5, 2)), Num(3))
      objDmgShare == Div(Num(q.damageDealtToObjectives), Num(tot.totalObjDmg))
      objDmgPts == Scaled(Div(objDmgShare, Frac(15, 100)), 4)
      stealPts == Mul(Add(Num(q.objectivesStolen),
                          Mul(Num(q.objectivesStolenAssists), Frac(1, 2))), Num(3))
      stealCapped == MathMin(stealPts, Num(5))
  IN  Add(Add(Add(Add(Add(turretPts, inhibPts), dragonPts), baronPts), objDmgPts),
          stealCapped)

\* 4) economy
Economy(q, minutes, tot, myTeamGold) ==
  LET cs == q.totalMinionsKilled + q.neutralMinionsKilled
      goldSharePts == Scaled(Div(Div(Num(q.goldEarned), Num(tot.totalGold)),
                                 Frac(12, 100)), 5)
      csPerMin == Div(Num(cs), minutes)
      csPts == Scaled(Div(csPerMin, Num(8)), 3)
      goldEfficiency == IF myTeamGold > 0
                          THEN Div(Num(q.goldEarned), Num(myTeamGold)) ELSE Num(0)
      goldEffPts == Scaled(Div(goldEfficiency, Frac(1, 4)), 2)
  IN  Add(Add(goldSharePts, csPts), goldEffPts)

\* 5) vision
Vision(q, minutes, tot) ==
  LET visionSharePts == Scaled(Div(Div(Num(q.visionScore), Num(tot.totalVision)),
                                   Frac(13, 100)), 4)
      wardsPerMinPts == Scaled(Div(Div(Num(q.wardsPlaced + q.wardsKilled), minutes),
                                   Frac(3, 2)), 2)
      controlWardPts == MathMin(Mul(Num(q.visionWardsBoughtInGame), Frac(1, 2)), Num(2))
  IN  Add(Add(visionSharePts, wardsPerMinPts), controlWardPts)

\* 6) utility
Utility(q, tot) ==
  LET ccShare == Div(Num(q.timeCCingOthers), Num(tot.totalCC))
      ccPts == Scaled(Div(ccShare, Frac(15, 100)), 4)
      healShieldShare == Div(Num(q.totalHealsOnTeammates
                                 + q.totalDamageShieldedOnTeammates),
                             Num(tot.totalHealing))
      healShieldPts == Scaled(Div(healShieldShare, Frac(15, 100)), 4)
      tankShare == Div(Num(q.totalDamageTaken), Num(tot.totalDmgTaken))
      tankPts == Scaled(Div(tankShare, Frac(15, 100)), 4)
  IN  Add(Add(ccPts, healShieldPts), tankPts)

\* 7) clutch / map pressure
Clutch(q, minutes, duration) ==
  LET firstBloodPts == (IF q.firstBloodKill THEN 2 ELSE 0)
                       + (IF q.firstBloodAssist THEN 1 ELSE 0)
      firstTowerPts == (IF q.firstTowerKill THEN 2 ELSE 0)
                       + (IF q.firstTowerAssist THEN 1 ELSE 0)
      towerDmg == IF q.damageDealtToTurrets # 0 THEN q.damageDealtToTurrets
                  ELSE q.damageDealtToBuildings
      towerDmgPts == Scaled(Div(Div(Num(towerDmg), minutes), Num(200)), 3)
      survivalPts == Scaled(Div(Num(q.longestTimeSpentLiving),
                                Mul(Num(duration), Frac(2, 5))), 2)
      levelAdvPts == Scaled(Div(Num(q.champLevel), Num(18)), 2)
  IN  MathMin(Add(Add(Add(Num(firstBloodPts + firstTowerPts), towerDmgPts),
                      survivalPts), levelAdvPts), Num(12))

\* 8) win contribution
WinContribution(q, myTeamKills, myTeamGold, myTeamDmg) ==
  LET teamKillShare == Div(Num(q.kills + q.assists), Num(myTeamKills + 1))
      teamGoldShare == Div(Num(q.goldEarned), Num(myTeamGold))
      teamDmgPct == Div(Num(q.totalDamageDealtToChampions), Num(myTeamDmg))
      carryIndex == Add(Add(Mul(teamKillShare, Frac(35, 100)),
                            Mul(teamDmgPct, Frac(35, 100))),
                        Mul(teamGoldShare, Frac(3, 10)))
      winMultiplier == IF q.win THEN Frac(3, 2) ELSE Frac(7, 10)
  IN  MathMin(Mul(Mul(carryIndex, winMultiplier), Num(15)), Num(10))

\* the nine category values of one participant
Breakdown(q, ps, duration) ==
  LET minutes == Div(Num(duration), Num(60))
      tot == Totals(ps)
      myTeamKills == TeamDenominator(teamKills(ps, q.teamId))
      myTeamGold == TeamDenominator(teamGold(ps, q.teamId))
      myTeamDmg == TeamDenominator(teamDmg(ps, q.teamId))
  IN  [combat |-> Combat(q, minutes, myTeamKills),
       damage |-> Damage(q, minutes, tot, myTeamDmg),
       objectives |-> Objectives(q, tot),
       economy |-> Economy(q, minutes, tot, myTeamGold),
       vision |-> Vision(q, minutes, tot),
       utility |-> Utility(q, tot),
       clutch |-> Clutch(q, minutes, duration),
       impact |-> calculateMatchImpact(q, duration),
       winContribution |-> WinContribution(q, myTeamKills, myTeamGold, myTeamDmg)]

\* sum over the nine categories of F(category)
CategorySum(F(_)) ==
  Add(Add(Add(Add(Add(Add(Add(Add(F("combat"), F("damage")), F("objectives")),
      F("economy")), F("vision")), F("utility")), F("clutch")), F("impact")),
      F("winContribution"))

\* (mutant) the normalization without the clamp at 100
Normalize_NoClamp(rawWeighted, roleMax) ==
  Mul(Div(rawWeighted, roleMax), Num(100))

\* rawWeighted / roleMax * 100, clamped at 100
Normalize(rawWeighted, roleMax) ==
  MathMin(Mul(Div(rawWeighted, roleMax), Num(100)), Num(100))

\* rawWeighted / roleMax * 100 of a breakdown, before the clamp
NormalizedScore_Raw(b, role) ==
  LET w == roleWeights(role)
      rawWeighted == CategorySum(LAMBDA k: Mul(b[k], w[k]))
      roleMax == CategorySum(LAMBDA k: Mul(Num(categoryMax[k]), w[k]))
  IN  Mul(Div(rawWeighted, roleMax), Num(100))

\* the weighted sum divided by the plain sum of the caps instead of the
\* role-specific maximum
NormalizedScore_PlainMax(b, role) ==
  LET w == roleWeights(role)
      rawWeighted == CategorySum(LAMBDA k: Mul(b[k], w[k]))
      roleMax == CategorySum(LAMBDA k: Num(categoryMax[k]))
  IN  Normalize(rawWeighted, roleMax)

\* the role-weighted, role-normalized score of a breakdown
NormalizedScore(b, role) ==
  LET w == roleWeights(role)
      rawWeighted == CategorySum(LAMBDA k: Mul(b[k], w[k]))
      roleMax == CategorySum(LAMBDA k: Mul(Num(categoryMax[k]), w[k]))
  IN  Normalize(rawWeighted, roleMax)

\* participants.map(p => ...)
Scored(ps, duration) ==
  [i \in 1..Len(ps) |->
     LET b == Breakdown(ps[i], ps, duration)
     IN  [puuid |-> ps[i].puuid, score |-> NormalizedScore(b, ps[i].teamPosition),
          breakdown |-> b]]

\* (mutant) a comparator that also moves b ahead of an equal a
ComesBefore_OrEqual(b, a) ==
  Ge(b.score, a.score)

\* the comparator (a, b) => b.score - a.score is positive: b goes first
\* (b.score - a.score > 0 exactly when b.score > a.score)
ComesBefore(b, a) ==
  Gt(b.score, a.score)

\* the place of x in a sorted list: behind every element it does not beat
RECURSIVE InsertAt(_, _, _)
InsertAt(s, x, i) ==
  IF i > Len(s) THEN Append(s, x)
  ELSE IF ComesBefore(x, s[i])
    THEN SubSeq(s, 1, i - 1) \o <<x>> \o SubSeq(s, i, Len(s))
  ELSE InsertAt(s, x, i + 1)

\* Array.prototype.sort: a stable sort
RECURSIVE SortByScore(_)
SortByScore(s) ==
  IF s = <<>> THEN <<>>
  ELSE InsertAt(SortByScore(SubSeq(s, 1, Len(s) - 1)), s[Len(s)], 1)

\* (mutant) ranks counted from 0
RankOf_ZeroBased(i) ==
  i

\* the rank given to the entry at (0-based) sort position i
RankOf(i) ==
  i + 1

\* scored.forEach((s, i) => result.set(s.puuid, ...)): a later set of the same
\* key replaces the earlier one
RECURSIVE ResultMap(_, _)
ResultMap(sorted, n) ==
  IF n = 0 THEN <<>>
  ELSE (sorted[n].puuid :> [rank |-> RankOf(n - 1), score |-> sorted[n].score,
                            breakdown |-> sorted[n].breakdown])
       @@ ResultMap(sorted, n - 1)

\* the ranking computed without the early return
rankPlayersInMatch_NoGuard(ps, duration, tm) ==
  LET sorted == SortByScore(Scored(ps, duration))
  IN  ResultMap(sorted, Len(sorted))

\* a ranking that gives the score 100 to the members of a team with a baron
rankPlayersInMatch_BaronBonus(ps, duration, tm) ==
  LET minutes == Div(Num(duration), Num(60))
      objectives == teamObjectives(tm)
      scored == Scored(ps, duration)
      bonus == [i \in 1..Len(ps) |->
                  IF /\ ps[i].teamId \in DOMAIN objectives
                     /\ objectives[ps[i].teamId].barons > 0
                  THEN [scored[i] EXCEPT !.score = Num(100)]
                  ELSE scored[i]]
  IN  IF Le(minutes, Num(0)) THEN <<>>
      ELSE LET sorted == SortByScore(bonus)
           IN  ResultMap(sorted, Len(sorted))

\* rankPlayersInMatch(participants, gameDuration, teams): teamObjectives is
\* filled from teams and read by no later statement
rankPlayersInMatch(ps, duration, tm) ==
  LET minutes == Div(Num(duration), Num(60))
      objectives == teamObjectives(tm)
  IN  IF Le(minutes, Num(0)) THEN <<>>
      ELSE LET sorted == SortByScore(Scored(ps, duration))
           IN  ResultMap(sorted, Len(sorted))

\* (mutant) a ranking that sorts the participants array itself
ParticipantsAfterRank_SortedInPlace(ps, duration) ==
  IF Le(Div(Num(duration), Num(60)), Num(0)) THEN ps
  ELSE LET sc == Scored(ps, duration)
           sorted == SortByScore([i \in 1..Len(ps) |->
                                    [puuid |-> i, score |-> sc[i].score]])
       IN  [k \in 1..Len(ps) |-> ps[sorted[k].puuid]]

\* the participants array after the call: the code reads it with forEach,
\* filter and map, and sorts "scored", the array that map() returned
ParticipantsAfterRank(ps, duration) ==
  ps

----------------------------------------------------------------------------
(* App and HomePage: the search form and onSearch.                          *)

\* null, and a value that is not null
Null ==
  <<>>

Some(x) ==
  <<x>>

\* the state of App and HomePage after the first render, no search running
HomeIdle ==
  [riotId |-> <<>>, platform |-> "EUN1", loading |-> FALSE, error |-> Null,
   currentView |-> "home", profileData |-> Null,
   pc |-> "idle", gameName |-> <<>>, tagLine |-> <<>>, routing |-> "",
   shardPlatform |-> "",
   account |-> Null, summoner |-> Null, leagues |-> <<>>, matchIds |-> <<>>,
   masteries |-> <<>>, issued |-> <<>>, failed |-> {}]

----------------------------------------------------------------------------
(* The proxy server (server/index.cjs): rateLimitedFetch and the route      *)
(* GET /api/riot/match/:matchId with its cache.  Times are milliseconds.    *)

MIN_REQUEST_INTERVAL ==
  50

\* 5 * 60 * 1000
CACHE_TTL ==
  300000

\* the incoming requests of a run
MaxRequests ==
  3

Requests ==
  1..MaxRequests

\* the cache keys `${matchId}_${routing}` of the requests
CacheKeys ==
  {"EUN1_1_europe", "EUN1_2_europe"}

\* Date.now() when the server starts, lastRequestTime being 0
StartTime ==
  100

\* the amounts by which the clock advances between two events
TickSteps ==
  {10, 30, CACHE_TTL}

\* the clock is followed over MaxOffset ms after the start and over MaxOffset
\* ms after one cache lifetime
MaxOffset ==
  60

ClockValues ==
  { StartTime + d : d \in 0..MaxOffset } \cup
  { StartTime + CACHE_TTL + d : d \in 0..MaxOffset }

\* the JSON of the match behind a cache key, as the upstream API returns it
MatchJson(key) ==
  [metadata |-> [matchId |-> key]]

\* the status of a failed upstream response
UpstreamErrors ==
  {404, 429}

\* a request that has not come in yet
NoRequest ==
  [pc |-> "new", key |-> "", wake |-> 0, status |-> 0, body |-> <<>>,
   source |-> "", at |-> 0, cachedTime |-> 0]

\* the server after start-up: nothing cached, no request
ProxyIdle ==
  [now |-> StartTime, lastRequestTime |-> 0, matchCache |-> <<>>,
   req |-> [r \in Requests |-> NoRequest],
   started |-> <<>>]

\* the statements of rateLimitedFetch up to the first await or to fetchFn, run
\* by request r at time px.now
rateLimitedFetch(px, r) ==
  LET now == px.now
      timeSinceLastRequest == now - px.lastRequestTime
  IN  IF timeSinceLastRequest < MIN_REQUEST_INTERVAL
      THEN [px EXCEPT
              !.req[r].pc = "waiting",
              !.req[r].wake = now + (MIN_REQUEST_INTERVAL - timeSinceLastRequest)]
      ELSE [px EXCEPT
              !.lastRequestTime = now,
              !.started = Append(@, now),
              !.req[r].pc = "fetching"]

\* (mutant) a handler that answers from the cache whatever the age of the entry
CacheIsFresh_Always(px, key) ==
  key \in DOMAIN px.matchCache

\* cached && Date.now() - cached.time < CACHE_TTL
CacheIsFresh(px, key) ==
  /\ key \in DOMAIN px.matchCache
  /\ px.now - px.matchCache[key].time < CACHE_TTL

\* GET /api/riot/match/:matchId comes in as request r: the handler runs up to
\* its first await, or answers from the cache
receiveMatchRequest(r, key) ==
  /\ proxy.req[r].pc = "new"
  /\ \A q \in 1..(r - 1) : proxy.req[q].pc # "new"
  /\ proxy' =
       IF CacheIsFresh(proxy, key)
       THEN [proxy EXCEPT
               !.req[r] = [pc |-> "done", key |-> key, wake |-> 0, status |-> 200,
                           body |-> proxy.matchCache[key].data, source |-> "cache",
                           at |-> proxy.now,
                           cachedTime |-> proxy.matchCache[key].time]]
       ELSE rateLimitedFetch([proxy EXCEPT !.req[r].key = key], r)
  /\ UNCHANGED <<pc, p, gameDuration, impactScore, participants, teams, rankings,
                 upstream, matchesData, matchesLoading, view, home>>

\* the timer of a waiting rateLimitedFetch fires: lastRequestTime = Date.now()
\* and fetchFn is called
timerFires(r) ==
  /\ proxy.req[r].pc = "waiting"
  /\ proxy.now >= proxy.req[r].wake
  /\ proxy' = [proxy EXCEPT
                 !.lastRequestTime = proxy.now,
                 !.started = Append(@, proxy.now),
                 !.req[r].pc = "fetching"]
  /\ UNCHANGED <<pc, p, gameDuration, impactScore, participants, teams, rankings,
                 upstream, matchesData, matchesLoading, view, home>>

\* the upstream API answers request r with the match: riotFetch returns the
\* JSON, the handler stores it in matchCache and sends it
upstreamSucceeds(r) ==
  /\ proxy.req[r].pc = "fetching"
  /\ proxy' =
       LET key == proxy.req[r].key
           data == MatchJson(key)
           entry == [data |-> data, time |-> proxy.now]
       IN  [proxy EXCEPT
              !.matchCache = (key :> entry) @@ @,
              !.req[r].pc = "done",
              !.req[r].status = 200,
              !.req[r].body = data,
              !.req[r].source = "upstream",
              !.req[r].at = proxy.now]
  /\ UNCHANGED <<pc, p, gameDuration, impactScore, participants, teams, rankings,
                 upstream, matchesData, matchesLoading, view, home>>

\* the upstream API answers request r with an error status, or the fetch
\* fails: riotFetch throws and the handler calls sendError
upstreamFails(r) ==
  /\ proxy.req[r].pc = "fetching"
  /\ \E status \in UpstreamErrors :
       proxy' = [proxy EXCEPT
                   !.req[r].pc = "done",
                   !.req[r].status = status,
                   !.req[r].body = [error |-> "HTTP", status |-> status],
                   !.req[r].source = "error",
                   !.req[r].at = proxy.now]
  /\ UNCHANGED <<pc, p, gameDuration, impactScore, participants, teams, rankings,
                 upstream, matchesData, matchesLoading, view, home>>

\* time passes up to the next timer at most
tick ==
  /\ \E step \in TickSteps :
       /\ proxy.now + step \in ClockValues
       /\ \A r \in Requests :
            proxy.req[r].pc = "waiting" => proxy.now + step <= proxy.req[r].wake
       /\ proxy' = [proxy EXCEPT !.now = proxy.now + step]
  /\ UNCHANGED <<pc, p, gameDuration, impactScore, participants, teams, rankings,
                 upstream, matchesData, matchesLoading, view, home>>

InitProxy ==
  /\ proxy = ProxyIdle
  /\ home = HomeIdle
  /\ pc = "proxy"
  /\ p = NoParticipant
  /\ gameDuration = 0
  /\ impactScore = Num(0)
  /\ participants = <<>>
  /\ teams = TeamsOmitted
  /\ rankings = <<>>
  /\ upstream = <<>>
  /\ matchesData = <<>>
  /\ matchesLoading = FALSE
  /\ view = <<>>

NextProxy ==
  \/ \E r \in Requests, key \in CacheKeys : receiveMatchRequest(r, key)
  \/ \E r \in Requests : timerFires(r)
  \/ \E r \in Requests : upstreamSucceeds(r)
  \/ \E r \in Requests : upstreamFails(r)
  \/ tick

SpecProxy ==
  InitProxy /\ [][NextProxy]_vars

----------------------------------------------------------------------------
(* HomePage.onSearch and App.goToProfile / goHome.  A text is the sequence  *)
(* of its characters.  home.pc is the await onSearch is suspended at;       *)
(* gameName, tagLine, routing and shardPlatform are the values the running  *)
(* search has captured; issued lists the requests of the last submitted     *)
(* search and failed the ones of them that failed.                          *)

\* the position of the first character c of s at or after position from, 0 if
\* there is none
RECURSIVE IndexOf(_, _, _)
IndexOf(s, c, from) ==
  IF from > Len(s) THEN 0
  ELSE IF s[from] = c THEN from
  ELSE IndexOf(s, c, from + 1)

\* s.split('#')[0]
FirstPart(s) ==
  IF IndexOf(s, "#", 1) = 0 THEN s
  ELSE SubSeq(s, 1, IndexOf(s, "#", 1) - 1)

\* s.split('#')[1]: undefined without a '#'
SecondPart(s) ==
  LET first == IndexOf(s, "#", 1)
      second == IF first = 0 THEN 0 ELSE IndexOf(s, "#", first + 1)
  IN  IF first = 0 THEN Null
      ELSE IF second = 0 THEN Some(SubSeq(s, first + 1, Len(s)))
      ELSE Some(SubSeq(s, first + 1, second - 1))

\* s.trim()
RECURSIVE Trim(_)
Trim(s) ==
  IF s = <<>> THEN s
  ELSE IF Head(s) = " " THEN Trim(Tail(s))
  ELSE IF s[Len(s)] = " " THEN Trim(SubSeq(s, 1, Len(s) - 1))
  ELSE s

\* raw?.trim()
TrimOptional(raw) ==
  IF raw = Null THEN Null ELSE Some(Trim(raw[1]))

\* !x for x undefined or a string
Falsy(x) ==
  x = Null \/ x[1] = <<>>

getRouting(platform) ==
  IF platform \in {"EUN1", "EUW1", "TR1", "RU"} THEN "europe"
  ELSE IF platform \in {"NA1", "BR1", "LA1", "LA2", "OC1"} THEN "americas"
  ELSE "asia"

\* what the user types into the form
RiotIds ==
  {<<>>, <<"N">>, <<"N", "#">>, <<"#", "T">>, <<" ", "#", "T">>, <<"N", "#", " ">>,
   <<"N", "#", "T">>, <<" ", "N", " ", "#", " ", "T">>, <<"N", "#", "T", "#", "x">>}

\* the platforms chosen in the form
Platforms ==
  {"EUN1", "NA1", "KR"}

FormatError ==
  "Wpisz Riot ID w formacie Nick#TAG"

\* the message of the Error thrown by riotFetch for a response that is not ok
HttpError ==
  "HTTP 404"

\* the answers of the proxy to the five requests of a search
AccountOf(gameName, tagLine) ==
  [puuid |-> "puuid-1", gameName |-> gameName, tagLine |-> tagLine]

SummonerOf(account) ==
  [id |-> "summoner-1", puuid |-> account.puuid, name |-> account.gameName,
   summonerLevel |-> 30, profileIconId |-> 7]

LeaguesFound ==
  <<[queueType |-> "RANKED_SOLO_5x5", tier |-> "GOLD", rank |-> "II",
     leaguePoints |-> 40, wins |-> 10, losses |-> 8]>>

MatchIdsFound ==
  <<"EUN1_1", "EUN1_2">>

MasteriesFound ==
  <<[championId |-> 103, championLevel |-> 7, championPoints |-> 120000]>>

\* summoner || { id: '', puuid: account.puuid, name: account.gameName, ... }
PlaceholderSummoner(account) ==
  [id |-> "", puuid |-> account.puuid, name |-> account.gameName,
   summonerLevel |-> 0, profileIconId |-> 0]

\* (mutant) a search that fails as a whole when the mastery request fails
MasteriesFailure_Rethrown(h) ==
  [h EXCEPT !.error = Some(HttpError), !.loading = FALSE, !.pc = "idle"]

\* the SearchResult built after the five requests, and onProfileFound(result)
\* followed by the finally block
ProfileFound(h, masteries) ==
  [h EXCEPT
     !.masteries = masteries,
     !.profileData =
        Some([account |-> h.account[1],
              shard |-> [game |-> "lol", region |-> h.routing,
                         platform |-> h.shardPlatform],
              summoner |-> IF h.summoner = Null THEN PlaceholderSummoner(h.account[1])
                           ELSE h.summoner[1],
              leagues |-> h.leagues,
              matchIds |-> h.matchIds,
              masteries |-> masteries]),
     !.currentView = "profile",
     !.loading = FALSE,
     !.pc = "idle"]

\* the catch block of the mastery request: masteries = [], then the result
MasteriesFailure(h) ==
  ProfileFound(h, <<>>)

\* the user edits the text field, a running search keeps the text it was
\* started with: setRiotId
setRiotId(text) ==
  /\ home.currentView = "home"
  /\ home.riotId # text
  /\ home' = [home EXCEPT !.riotId = text]
  /\ UNCHANGED <<pc, p, gameDuration, impactScore, participants, teams, rankings,
                 upstream, matchesData, matchesLoading, view, proxy>>

\* the user chooses a platform, a running search keeps the platform it was
\* started with: setPlatform
setPlatform(platform) ==
  /\ home.currentView = "home"
  /\ home.platform # platform
  /\ home' = [home EXCEPT !.platform = platform]
  /\ UNCHANGED <<pc, p, gameDuration, impactScore, participants, teams, rankings,
                 upstream, matchesData, matchesLoading, view, proxy>>

\* the form is submitted (the button is disabled while loading): onSearch up
\* to its first await
onSearch ==
  /\ home.currentView = "home"
  /\ home.pc = "idle"
  /\ ~home.loading
  /\ home' =
       LET gameName == TrimOptional(Some(FirstPart(home.riotId)))
           tagLine == TrimOptional(SecondPart(home.riotId))
       IN  IF Falsy(gameName) \/ Falsy(tagLine)
           THEN [home EXCEPT !.error = Some(FormatError), !.issued = <<>>,
                             !.failed = {}]
           ELSE [home EXCEPT
                   !.error = Null,
                   !.loading = TRUE,
                   !.gameName = gameName[1],
                   !.tagLine = tagLine[1],
                   !.routing = getRouting(home.platform),
                   !.shardPlatform = home.platform,
                   !.account = Null,
                   !.summoner = Null,
                   !.leagues = <<>>,
                   !.matchIds = <<>>,
                   !.masteries = <<>>,
                   !.issued = <<"account/by-riot-id">>,
                   !.failed = {},
                   !.pc = "account"]
  /\ UNCHANGED <<pc, p, gameDuration, impactScore, participants, teams, rankings,
                 upstream, matchesData, matchesLoading, view, proxy>>

\* the account request is answered: on a failure the outer catch sets the
\* error and the finally block ends the search
accountResponds ==
  /\ home.pc = "account"
  /\ \E ok \in BOOLEAN :
       home' =
         IF ok
         THEN [home EXCEPT
                 !.account = Some(AccountOf(home.gameName, home.tagLine)),
                 !.issued = Append(@, "summoner/by-puuid"),
                 !.pc = "summoner"]
         ELSE [home EXCEPT !.error = Some(HttpError), !.loading = FALSE,
                           !.failed = {"account"}, !.pc = "idle"]
  /\ UNCHANGED <<pc, p, gameDuration, impactScore, participants, teams, rankings,
                 upstream, matchesData, matchesLoading, view, proxy>>

\* the summoner request is answered: a failure leaves summoner null
summonerResponds ==
  /\ home.pc = "summoner"
  /\ \E ok \in BOOLEAN :
       home' = [home EXCEPT
                  !.summoner = IF ok THEN Some(SummonerOf(home.account[1])) ELSE Null,
                  !.failed = IF ok THEN @ ELSE @ \cup {"summoner"},
                  !.issued = Append(@, "league/by-puuid"),
                  !.pc = "leagues"]
  /\ UNCHANGED <<pc, p, gameDuration, impactScore, participants, teams, rankings,
                 upstream, matchesData, matchesLoading, view, proxy>>

\* the league request is answered: a failure gives leagues = []
leaguesResponds ==
  /\ home.pc = "leagues"
  /\ \E ok \in BOOLEAN :
       home' = [home EXCEPT
                  !.leagues = IF ok THEN LeaguesFound ELSE <<>>,
                  !.failed = IF ok THEN @ ELSE @ \cup {"leagues"},
                  !.issued = Append(@, "matches/by-puuid"),
                  !.pc = "matchIds"]
  /\ UNCHANGED <<pc, p, gameDuration, impactScore, participants, teams, rankings,
                 upstream, matchesData, matchesLoading, view, proxy>>

\* the match list request is answered: a failure gives matchIds = []
matchIdsResponds ==
  /\ home.pc = "matchIds"
  /\ \E ok \in BOOLEAN :
       home' = [home EXCEPT
                  !.matchIds = IF ok THEN MatchIdsFound ELSE <<>>,
                  !.failed = IF ok THEN @ ELSE @ \cup {"matchIds"},
                  !.issued = Append(@, "champion-mastery/all"),
                  !.pc = "masteries"]
  /\ UNCHANGED <<pc, p, gameDuration, impactScore, participants, teams, rankings,
                 upstream, matchesData, matchesLoading, view, proxy>>

\* the mastery request is answered: a failure gives masteries = []; the
\* result is built, goToProfile(result) is called and the finally block runs
masteriesResponds ==
  /\ home.pc = "masteries"
  /\ \E ok \in BOOLEAN :
       home' = IF ok THEN ProfileFound(home, MasteriesFound)
               ELSE MasteriesFailure([home EXCEPT !.failed = @ \cup {"masteries"}])
  /\ UNCHANGED <<pc, p, gameDuration, impactScore, participants, teams, rankings,
                 upstream, matchesData, matchesLoading, view, proxy>>

\* the logo of the profile is clicked: goHome; HomePage is mounted again with
\* its initial state (issued and failed keep the record of the last search)
goHome ==
  /\ home.currentView = "profile"
  /\ home' = [HomeIdle EXCEPT !.issued = home.issued, !.failed = home.failed]
  /\ UNCHANGED <<pc, p, gameDuration, impactScore, participants, teams, rankings,
                 upstream, matchesData, matchesLoading, view, proxy>>

InitHome ==
  /\ home = HomeIdle
  /\ proxy = ProxyIdle
  /\ pc = "home"
  /\ p = NoParticipant
  /\ gameDuration = 0
  /\ impactScore = Num(0)
  /\ participants = <<>>
  /\ teams = TeamsOmitted
  /\ rankings = <<>>
  /\ upstream = <<>>
  /\ matchesData = <<>>
  /\ matchesLoading = FALSE
  /\ view = <<>>

NextHome ==
  \/ \E text \in RiotIds : setRiotId(text)
  \/ \E platform \in Platforms : setPlatform(platform)
  \/ onSearch
  \/ accountResponds
  \/ summonerResponds
  \/ leaguesResponds
  \/ matchIdsResponds
  \/ masteriesResponds
  \/ goHome

SpecHome ==
  InitHome /\ [][NextHome]_vars

----------------------------------------------------------------------------
(* Inputs of the impact computation.                                        *)

Durations ==
  {-60, 0, 60, 1800}

ImpactParticipants ==
  { [NoParticipant EXCEPT
       !.puuid = "me", !.kills = k, !.deaths = d, !.assists = a, !.win = w,
       !.totalMinionsKilled = cs - cs \div 10,
       !.neutralMinionsKilled = cs \div 10,
       !.visionScore = vs, !.totalDamageDealtToChampions = dmg,
       !.goldEarned = gold, !.turretKills = 2 * obj, !.inhibitorKills = obj,
       !.dragonKills = obj, !.baronKills = obj,
       !.damageDealtToObjectives = odmg] :
     k \in {0, 10}, d \in {0, 2, 30}, a \in {0, 5}, w \in BOOLEAN,
     cs \in {0, 200}, vs \in {0, 30}, dmg \in {0, 18000}, gold \in {0, 14000},
     obj \in {0, 1}, odmg \in {0, 20000} }

InitImpact ==
  /\ pc = "impact"
  /\ p \in ImpactParticipants
  /\ gameDuration \in Durations
  /\ impactScore = Num(0)
  /\ participants = <<>>
  /\ teams = TeamsOmitted
  /\ rankings = <<>>
  /\ upstream = <<>>
  /\ matchesData = <<>>
  /\ matchesLoading = FALSE
  /\ view = <<>>
  /\ proxy = ProxyIdle
  /\ home = HomeIdle

\* one call calculateMatchImpact(p, gameDuration)
CallImpact ==
  /\ pc = "impact"
  /\ impactScore' = calculateMatchImpact(p, gameDuration)
  /\ pc' = "impactDone"
  /\ UNCHANGED <<proxy, home, p, gameDuration, participants, teams, rankings, upstream,
                 matchesData, matchesLoading, view>>

\* one call calculateMatchImpact(p, match.info.gameDuration) on a match record
\* without the field gameDuration
CallImpactUndefined ==
  /\ pc = "impact"
  /\ impactScore' = calculateMatchImpact_Undefined(p)
  /\ pc' = "impactUndefined"
  /\ UNCHANGED <<proxy, home, p, gameDuration, participants, teams, rankings, upstream,
                 matchesData, matchesLoading, view>>

----------------------------------------------------------------------------
(* Inputs of the ranking: matches of 10 participants, 5 per team.           *)

Puuids ==
  <<"p1", "p2", "p3", "p4", "p5", "p6", "p7", "p8", "p9", "p10">>

Lanes ==
  <<"TOP", "JUNGLE", "MIDDLE", "BOTTOM", "UTILITY">>

\* the strength of a participant: 0 idle, 1 feeding, 2 average, 4 carrying
Strengths ==
  {0, 1, 2, 4}

\* a participant of strength m.  Every active participant (m > 0) has the
\* same share-based counters, so that the shares are plain fractions
Player(m) ==
  LET act == IF m > 0 THEN 1 ELSE 0
  IN  [NoParticipant EXCEPT
     !.championName = "Ahri",
     !.champLevel = CASE m = 0 -> 0 [] m = 4 -> 18 [] OTHER -> 9,
     !.kills = act,
     !.assists = CASE m = 2 -> 2 [] m = 4 -> 4 [] OTHER -> 0,
     !.deaths = CASE m = 1 -> 15 [] m = 2 -> 3 [] OTHER -> 0,
     !.totalMinionsKilled = CASE m = 0 -> 0 [] m = 1 -> 105 [] m = 2 -> 210
                              [] OTHER -> 370,
     !.neutralMinionsKilled = CASE m = 0 -> 0 [] m = 1 -> 15 [] m = 2 -> 30
                                [] OTHER -> 50,
     !.visionScore = 45 * act,
     !.visionWardsBoughtInGame = CASE m = 2 -> 2 [] m = 4 -> 4 [] OTHER -> 0,
     !.wardsPlaced = CASE m = 2 -> 30 [] m = 4 -> 60 [] OTHER -> 0,
     !.wardsKilled = CASE m = 2 -> 15 [] m = 4 -> 30 [] OTHER -> 0,
     !.goldEarned = 13500 * act,
     !.totalDamageDealtToChampions = 24000 * act,
     !.totalDamageTaken = 27000 * act,
     !.doubleKills = IF m = 2 THEN 1 ELSE 0,
     !.pentaKills = IF m = 4 THEN 1 ELSE 0,
     !.turretKills = CASE m = 2 -> 2 [] m = 4 -> 4 [] OTHER -> 0,
     !.inhibitorKills = IF m = 4 THEN 2 ELSE 0,
     !.dragonKills = IF m = 4 THEN 2 ELSE 0,
     !.baronKills = IF m = 4 THEN 2 ELSE 0,
     !.objectivesStolen = IF m = 4 THEN 2 ELSE 0,
     !.damageDealtToObjectives = 18000 * act,
     !.damageDealtToTurrets = IF m = 4 THEN 6000 ELSE 0,
     !.damageDealtToBuildings = IF m = 2 THEN 3000 ELSE 0,
     !.timeCCingOthers = 45 * act,
     !.totalHealsOnTeammates = 3000 * act,
     !.totalDamageShieldedOnTeammates = 1500 * act,
     !.longestTimeSpentLiving = CASE m = 2 -> 360 [] m = 4 -> 720 [] OTHER -> 0,
     !.soloKills = IF m = 4 THEN 5 ELSE 0,
     !.largestKillingSpree = IF m = 4 THEN 10 ELSE 0]

\* the match with strengths a, b at places 1, 2 (team 100), c at place 6
\* (team 200) and d elsewhere
Match(a, b, c, d, roleMode, winMode, dup) ==
  [i \in 1..10 |->
     LET m == CASE i = 1 -> a [] i = 2 -> b [] i = 6 -> c [] OTHER -> d
         team == IF i <= 5 THEN 100 ELSE 200
     IN  [Player(m) EXCEPT
            !.puuid = IF dup /\ i = 10 THEN Puuids[1] ELSE Puuids[i],
            !.teamId = team,
            !.teamPosition = CASE roleMode = "lanes" -> Lanes[((i - 1) % 5) + 1]
                               [] roleMode = "same" -> "MIDDLE"
                               [] OTHER -> "",
            !.win = CASE winMode = "blue" -> team = 100
                      [] winMode = "red" -> team = 200
                      [] OTHER -> FALSE,
            !.firstBloodKill = (i = 1 /\ m = 4),
            !.firstTowerKill = (i = 1 /\ m = 4),
            !.firstBloodAssist = (i = 2 /\ m >= 2)]]

RankDurations ==
  {0, 1800}

\* the teams argument of a call: left out, two teams without objectives, two
\* teams with barons, dragons and towers
TeamsInputs ==
  {TeamsOmitted,
   TeamsGiven(<<Team(100, TRUE, 0, 0, 0), Team(200, FALSE, 0, 0, 0)>>),
   TeamsGiven(<<Team(100, TRUE, 1, 2, 5), Team(200, FALSE, 0, 4, 11)>>)}

InitRank ==
  /\ pc = "rank"
  /\ \E a \in Strengths, b \in Strengths, c \in Strengths, d \in Strengths,
        roleMode \in {"lanes", "same", "unknown"},
        winMode \in {"blue", "red", "none"}, dup \in BOOLEAN :
       \* the duplicated player id is tried on the ordinary matches only
       /\ dup => (roleMode = "lanes" /\ winMode = "blue")
       \* either at most three participants are active, or all ten are
       /\ d = 0 \/ 0 \notin {a, b, c}
       /\ participants = Match(a, b, c, d, roleMode, winMode, dup)
       \* the teams argument is varied on the ordinary matches only
       /\ teams \in TeamsInputs
       /\ teams # TeamsOmitted => (roleMode = "lanes" /\ winMode = "blue" /\ ~dup)
  /\ gameDuration \in RankDurations
  /\ rankings = <<>>
  /\ p = NoParticipant
  /\ impactScore = Num(0)
  /\ upstream = <<>>
  /\ matchesData = <<>>
  /\ matchesLoading = FALSE
  /\ view = <<>>
  /\ proxy = ProxyIdle
  /\ home = HomeIdle

\* one call rankPlayersInMatch(match.info.participants, match.info.gameDuration,
\* match.info.teams)
CallRank ==
  /\ pc = "rank"
  /\ rankings' = rankPlayersInMatch(participants, gameDuration, teams)
  /\ participants' = ParticipantsAfterRank(participants, gameDuration)
  /\ pc' = "rankDone"
  /\ UNCHANGED <<proxy, home, p, gameDuration, impactScore, teams, upstream,
                 matchesData, matchesLoading, view>>

NextRank ==
  CallRank

SpecRank ==
  InitRank /\ [][NextRank]_vars

NextImpact ==
  \/ CallImpact
  \/ CallImpactUndefined

SpecImpact ==
  InitImpact /\ [][NextImpact]_vars

----------------------------------------------------------------------------
(* ProfilePage: the recent and the season aggregation of the matches.       *)
(* Strings of the page are written without diacritics.                      *)

\* account.puuid
AccountPuuid ==
  "me"

\* the size of the recent window: matchesData.slice(0, 20)
RecentWindow ==
  20

\* a local constant of the code: "const name = value" followed by its scope
With(value, Scope(_)) ==
  Scope(value)

\* s.slice(from, to) for 0 <= from <= to
Slice(s, from, to) ==
  IF from >= Len(s) THEN <<>>
  ELSE SubSeq(s, from + 1, IF to < Len(s) THEN to ELSE Len(s))

\* (mutant) a find() that falls back to the first participant
FindParticipant_First(ps, id) ==
  IF \E i \in 1..Len(ps) : ps[i].puuid = id
  THEN CHOOSE i \in 1..Len(ps) :
         ps[i].puuid = id /\ \A j \in 1..(i - 1) : ps[j].puuid # id
  ELSE 1

\* participants.find(p => p.puuid === id): the position of the first
\* participant with that id, 0 when find() returns undefined
FindParticipant(ps, id) ==
  IF \E i \in 1..Len(ps) : ps[i].puuid = id
  THEN CHOOSE i \in 1..Len(ps) :
         ps[i].puuid = id /\ \A j \in 1..(i - 1) : ps[j].puuid # id
  ELSE 0

\* (mutant) a mapping that puts the empty role label in the middle lane
normalizePosition_EmptyIsMid(pos) ==
  CASE pos = "TOP" -> "Top"
    [] pos = "JUNGLE" -> "Jng"
    [] pos = "BOTTOM" -> "Adc"
    [] pos = "UTILITY" -> "Sup"
    [] OTHER -> "Mid"

\* map[pos] || 'Unknown', for the role labels of the data model: the five
\* lanes and the empty label of a match without roles
normalizePosition(pos) ==
  CASE pos = "TOP" -> "Top"
    [] pos = "JUNGLE" -> "Jng"
    [] pos = "MIDDLE" -> "Mid"
    [] pos = "BOTTOM" -> "Adc"
    [] pos = "UTILITY" -> "Sup"
    [] OTHER -> "Unknown"

\* the matches a loop does not skip: "if (!participant) continue"
Counted(ms) ==
  SelectSeq(ms, LAMBDA m : FindParticipant(m.info.participants, AccountPuuid) # 0)

\* the participant found in a match that is not skipped
Participant(m) ==
  m.info.participants[FindParticipant(m.info.participants, AccountPuuid)]

\* the sum of the integers xs[lo..hi], halving the range
RECURSIVE SumInts(_, _, _)
SumInts(xs, lo, hi) ==
  IF lo > hi THEN 0
  ELSE IF lo = hi THEN xs[lo]
  ELSE SumInts(xs, lo, (lo + hi) \div 2) + SumInts(xs, (lo + hi) \div 2 + 1, hi)

\* scores.reduce((a, b) => a + b, 0) over scores[lo..hi], halving the range
RECURSIVE SumScores(_, _, _)
SumScores(scores, lo, hi) ==
  IF lo > hi THEN Num(0)
  ELSE IF lo = hi THEN scores[lo]
  ELSE Add(SumScores(scores, lo, (lo + hi) \div 2),
           SumScores(scores, (lo + hi) \div 2 + 1, hi))

\* scores.reduce((a, b) => a + b, 0) / scores.length
Average(scores) ==
  Div(SumScores(scores, 1, Len(scores)), Num(Len(scores)))

\* the list with every impact put in front of the earlier ones
ImpactScores_Unshift(ms) ==
  LET counted == Counted(ms)
  IN  [i \in 1..Len(counted) |->
         calculateMatchImpact(Participant(counted[Len(counted) + 1 - i]),
                              counted[Len(counted) + 1 - i].info.gameDuration)]

\* impactScores after the loop: one calculateMatchImpact per counted match
ImpactScores(ms) ==
  LET counted == Counted(ms)
  IN  [i \in 1..Len(counted) |->
         calculateMatchImpact(Participant(counted[i]),
                              counted[i].info.gameDuration)]

\* wins after the loop: "if (participant.win) wins++"
Wins(ms) ==
  LET counted == Counted(ms)
  IN  Cardinality({ i \in 1..Len(counted) : Participant(counted[i]).win })

\* losses counted for every match of the window without a win of the account,
\* a match without the account included
Losses_EveryMatch(ms) ==
  Len(ms) - Wins(ms)

\* losses after the loop: "else losses++"
Losses(ms) ==
  LET counted == Counted(ms)
  IN  Cardinality({ i \in 1..Len(counted) : ~Participant(counted[i]).win })

\* totalKills, totalDeaths, totalAssists after the loop
TotalKills(ms) ==
  LET counted == Counted(ms)
  IN  SumInts([i \in 1..Len(counted) |-> Participant(counted[i]).kills],
              1, Len(counted))

TotalDeaths(ms) ==
  LET counted == Counted(ms)
  IN  SumInts([i \in 1..Len(counted) |-> Participant(counted[i]).deaths],
              1, Len(counted))

TotalAssists(ms) ==
  LET counted == Counted(ms)
  IN  SumInts([i \in 1..Len(counted) |-> Participant(counted[i]).assists],
              1, Len(counted))

\* lanes after the loop: a key for every lane met other than 'Unknown',
\* with its games and its wins
LaneStats(ms) ==
  LET counted == Counted(ms)
      laneOf(i) == normalizePosition(Participant(counted[i]).teamPosition)
      met == { laneOf(i) : i \in 1..Len(counted) } \ {"Unknown"}
  IN  [lane \in met |->
         [games |-> Cardinality({ i \in 1..Len(counted) : laneOf(i) = lane }),
          wins |-> Cardinality({ i \in 1..Len(counted) :
                                   laneOf(i) = lane /\ Participant(counted[i]).win })]]

\* champions after the loop, in the order in which the keys were inserted
\* (the order of Object.values): the counted matches of a champion add up
ChampionStats(ms) ==
  LET counted == Counted(ms)
      n == Len(counted)
      champOf(i) == Participant(counted[i]).championName
      \* the matches that insert a key
      inserts == { i \in 1..n : \A j \in 1..(i - 1) : champOf(j) # champOf(i) }
      nth(k) == CHOOSE i \in inserts : Cardinality({ j \in inserts : j <= i }) = k
      Entry(champ) ==
        [name |-> champ,
         games |-> Cardinality({ i \in 1..n : champOf(i) = champ }),
         wins |-> Cardinality({ i \in 1..n :
                                  champOf(i) = champ /\ Participant(counted[i]).win }),
         kills |-> SumInts([i \in 1..n |-> IF champOf(i) = champ
                                           THEN Participant(counted[i]).kills
                                           ELSE 0], 1, n),
         deaths |-> SumInts([i \in 1..n |-> IF champOf(i) = champ
                                            THEN Participant(counted[i]).deaths
                                            ELSE 0], 1, n),
         assists |-> SumInts([i \in 1..n |-> IF champOf(i) = champ
                                             THEN Participant(counted[i]).assists
                                             ELSE 0], 1, n),
         totalImpact |->
           SumScores([i \in 1..n |->
                        IF champOf(i) = champ
                        THEN calculateMatchImpact(Participant(counted[i]),
                                                  counted[i].info.gameDuration)
                        ELSE Num(0)], 1, n)]
  IN  [k \in 1..Cardinality(inserts) |-> Entry(champOf(nth(k)))]

\* { kills, deaths, assists } per game
AverageKDA(ms) ==
  LET totalGames == Wins(ms) + Losses(ms)
  IN  [kills |-> IF totalGames > 0
                 THEN Div(Num(TotalKills(ms)), Num(totalGames)) ELSE Num(0),
       deaths |-> IF totalGames > 0
                  THEN Div(Num(TotalDeaths(ms)), Num(totalGames)) ELSE Num(0),
       assists |-> IF totalGames > 0
                   THEN Div(Num(TotalAssists(ms)), Num(totalGames)) ELSE Num(0)]

\* (mutant) a recent window that takes every match
recentMatches_All(md) ==
  md

\* matchesData.slice(0, 20)
recentMatches(md) ==
  Slice(md, 0, RecentWindow)

\* the recent analysis with 0 as the baseline of the trend when no score
\* stands at index 5..9
recentAnalysis_ZeroBaseline(recent) ==
  IF Len(recent) = 0
  THEN [impactScores |-> <<>>, avgImpact |-> Num(0), winrate |-> 0,
        wins |-> 0, losses |-> 0, lanes |-> <<>>,
        avgKDA |-> [kills |-> Num(0), deaths |-> Num(0), assists |-> Num(0)],
        recentTrend |-> Num(0)]
  ELSE
    With(ImpactScores(recent), LAMBDA impactScores :
    With(IF Len(impactScores) > 0 THEN Average(impactScores) ELSE Num(0),
         LAMBDA avgImpact :
    With(Slice(impactScores, 0, 5), LAMBDA recent5 :
    With(Slice(impactScores, 5, 10), LAMBDA prev5 :
    With(IF Len(recent5) > 0 THEN Average(recent5) ELSE Num(0),
         LAMBDA recentAvg :
    With(IF Len(prev5) > 0 THEN Average(prev5) ELSE Num(0),
         LAMBDA prevAvg :
    With(Wins(recent), LAMBDA wins :
    With(Losses(recent), LAMBDA losses :
      [impactScores |-> impactScores,
       avgImpact |-> avgImpact,
       winrate |-> IF wins + losses > 0 THEN RoundPercent(wins, wins + losses)
                   ELSE 0,
       wins |-> wins,
       losses |-> losses,
       lanes |-> LaneStats(recent),
       avgKDA |-> AverageKDA(recent),
       recentTrend |-> Sub(recentAvg, prevAvg)]))))))))

recentAnalysis(recent) ==
  IF Len(recent) = 0
  THEN [impactScores |-> <<>>, avgImpact |-> Num(0), winrate |-> 0,
        wins |-> 0, losses |-> 0, lanes |-> <<>>,
        avgKDA |-> [kills |-> Num(0), deaths |-> Num(0), assists |-> Num(0)],
        recentTrend |-> Num(0)]
  ELSE
    With(ImpactScores(recent), LAMBDA impactScores :
    With(IF Len(impactScores) > 0 THEN Average(impactScores) ELSE Num(0),
         LAMBDA avgImpact :
    With(Slice(impactScores, 0, 5), LAMBDA recent5 :
    With(Slice(impactScores, 5, 10), LAMBDA prev5 :
    With(IF Len(recent5) > 0 THEN Average(recent5) ELSE Num(0),
         LAMBDA recentAvg :
    With(IF Len(prev5) > 0 THEN Average(prev5) ELSE avgImpact,
         LAMBDA prevAvg :
    With(Wins(recent), LAMBDA wins :
    With(Losses(recent), LAMBDA losses :
      [impactScores |-> impactScores,
       avgImpact |-> avgImpact,
       winrate |-> IF wins + losses > 0 THEN RoundPercent(wins, wins + losses)
                   ELSE 0,
       wins |-> wins,
       losses |-> losses,
       lanes |-> LaneStats(recent),
       avgKDA |-> AverageKDA(recent),
       recentTrend |-> Sub(recentAvg, prevAvg)]))))))))

seasonAnalysis(md) ==
  IF Len(md) = 0
  THEN [impactScores |-> <<>>, avgImpact |-> Num(0), winrate |-> 0,
        wins |-> 0, losses |-> 0, lanes |-> <<>>, champions |-> <<>>,
        avgKDA |-> [kills |-> Num(0), deaths |-> Num(0), assists |-> Num(0)],
        totalGames |-> 0]
  ELSE
    With(ImpactScores(md), LAMBDA impactScores :
    With(Wins(md), LAMBDA wins :
    With(Losses(md), LAMBDA losses :
      [impactScores |-> impactScores,
       avgImpact |-> IF Len(impactScores) > 0 THEN Average(impactScores)
                     ELSE Num(0),
       winrate |-> IF wins + losses > 0 THEN RoundPercent(wins, wins + losses)
                   ELSE 0,
       wins |-> wins,
       losses |-> losses,
       lanes |-> LaneStats(md),
       champions |-> ChampionStats(md),
       avgKDA |-> AverageKDA(md),
       totalGames |-> wins + losses])))

\* the season analysis alone, without the impact fields of the recent window
analysis_SeasonImpact(recentA, seasonA) ==
  [impactScores |-> seasonA.impactScores,
   avgImpact |-> seasonA.avgImpact,
   recentTrend |-> recentA.recentTrend,
   winrate |-> seasonA.winrate,
   wins |-> seasonA.wins,
   losses |-> seasonA.losses,
   lanes |-> seasonA.lanes,
   champions |-> seasonA.champions,
   avgKDA |-> seasonA.avgKDA,
   totalGames |-> seasonA.totalGames]

\* { ...seasonAnalysis, impactScores, avgImpact, recentTrend of the recent one }
analysis(recentA, seasonA) ==
  [impactScores |-> recentA.impactScores,
   avgImpact |-> recentA.avgImpact,
   recentTrend |-> recentA.recentTrend,
   winrate |-> seasonA.winrate,
   wins |-> seasonA.wins,
   losses |-> seasonA.losses,
   lanes |-> seasonA.lanes,
   champions |-> seasonA.champions,
   avgKDA |-> seasonA.avgKDA,
   totalGames |-> seasonA.totalGames]

----------------------------------------------------------------------------
(* ProfilePage: the feedback rule table and the stability label.            *)

\* the scalar avgKDA of the page: (kills + assists) / deaths per game
avgKDA(a) ==
  IF Gt(a.avgKDA.deaths, Num(0))
  THEN Div(Add(a.avgKDA.kills, a.avgKDA.assists), a.avgKDA.deaths)
  ELSE Add(a.avgKDA.kills, a.avgKDA.assists)

killParticipation(a) ==
  Add(a.avgKDA.kills, a.avgKDA.assists)

\* the comparator (a, b) => (b.wins / b.games) - (a.wins / a.games) is positive
BetterWinrate(b, a) ==
  Gt(Div(Num(b.wins), Num(b.games)), Div(Num(a.wins), Num(a.games)))

RECURSIVE InsertByWinrate(_, _, _)
InsertByWinrate(s, x, i) ==
  IF i > Len(s) THEN Append(s, x)
  ELSE IF BetterWinrate(x, s[i])
    THEN SubSeq(s, 1, i - 1) \o <<x>> \o SubSeq(s, i, Len(s))
  ELSE InsertByWinrate(s, x, i + 1)

RECURSIVE SortByWinrate(_)
SortByWinrate(s) ==
  IF s = <<>> THEN <<>>
  ELSE InsertByWinrate(SortByWinrate(SubSeq(s, 1, Len(s) - 1)), s[Len(s)], 1)

\* the champion with the best win rate among those with 3 games or more:
\* <<>> for null, otherwise a one-element sequence
bestChamp(champions) ==
  LET champList == SelectSeq(champions, LAMBDA c : c.games >= 3)
      best == SortByWinrate(champList)[1]
  IN  IF Len(champList) = 0 THEN <<>>
      ELSE <<[name |-> best.name,
              winrate |-> RoundPercent(best.wins, best.games),
              games |-> best.games]>>

\* what a satisfied rule pushes
Item(text, priority) ==
  <<[text |-> text, priority |-> priority]>>

\* scores.reduce((sum, score) => sum + Math.pow(score - avg, 2), 0)
\* over scores[lo..hi]
RECURSIVE SumSquares(_, _, _, _)
SumSquares(scores, avg, lo, hi) ==
  IF lo > hi THEN Num(0)
  ELSE IF lo = hi THEN Mul(Sub(scores[lo], avg), Sub(scores[lo], avg))
  ELSE Add(SumSquares(scores, avg, lo, (lo + hi) \div 2),
           SumSquares(scores, avg, (lo + hi) \div 2 + 1, hi))

\* the variance of the feedback rules: 0 below 5 samples
variance(a) ==
  IF Len(a.impactScores) >= 5
  THEN Div(SumSquares(a.impactScores, a.avgImpact, 1, Len(a.impactScores)),
           Num(Len(a.impactScores)))
  ELSE Num(0)

\* the variance itself compared with x, without the square root
StdDevBelow_Variance(v, x) ==
  Lt(v, x)

\* Math.sqrt(v) < x and Math.sqrt(v) > x for x > 0, decided on the squares
StdDevBelow(v, x) ==
  Lt(v, Mul(x, x))

\* the variance itself compared with x from above, without the square root
StdDevAbove_Variance(v, x) ==
  Gt(v, x)

StdDevAbove(v, x) ==
  Gt(v, Mul(x, x))

allStrengths(a, best) ==
  LET v == variance(a)
      n == Len(a.impactScores)
  IN  (IF Ge(a.avgImpact, Num(8)) THEN Item("Dominujacy wplyw na gre", 10)
       ELSE IF Ge(a.avgImpact, Num(7)) THEN Item("Wysoki Impact", 8)
       ELSE IF Ge(a.avgImpact, Num(6)) THEN Item("Solidny wklad w gre druzyny", 5)
       ELSE <<>>)
      \o
      (IF a.winrate >= 65 THEN Item("Fenomenalny winrate", 10)
       ELSE IF a.winrate >= 55 THEN Item("Dobry winrate", 7)
       ELSE IF a.winrate >= 52 THEN Item("Pozytywny stosunek zwyciestw", 4)
       ELSE <<>>)
      \o
      (IF Ge(avgKDA(a), Num(5)) THEN Item("Wybitne KDA", 9)
       ELSE IF Ge(avgKDA(a), Num(4)) THEN Item("Swietne KDA", 7)
       ELSE IF Ge(avgKDA(a), Num(3)) THEN Item("Dobre proporcje kills/deaths", 5)
       ELSE <<>>)
      \o
      (IF Lt(a.avgKDA.deaths, Num(3)) THEN Item("Tylko smierci/gre", 8)
       ELSE IF Lt(a.avgKDA.deaths, Frac(9, 2))
         THEN Item("Kontrolujesz ilosc smierci", 4)
       ELSE <<>>)
      \o
      (IF Gt(a.recentTrend, Frac(1, 2)) THEN Item("Forma mocno w gore", 8)
       ELSE IF Gt(a.recentTrend, Frac(1, 5))
         THEN Item("Ostatnie gry powyzej sredniej", 5)
       ELSE <<>>)
      \o
      (IF Ge(killParticipation(a), Num(15))
         THEN Item("Bardzo aktywny w walkach teamowych", 6)
       ELSE IF Ge(killParticipation(a), Num(12))
         THEN Item("Dobra partycypacja w zabojstwach", 4)
       ELSE <<>>)
      \o
      (IF Ge(a.avgKDA.assists, Num(8)) THEN Item("asyst/gre", 6) ELSE <<>>)
      \o
      (IF Ge(a.avgKDA.kills, Num(8)) THEN Item("zabojstw/gre", 6) ELSE <<>>)
      \o
      (IF StdDevBelow(v, Num(1)) /\ n >= 5
         THEN Item("Bardzo konsekwentna gra", 7)
       ELSE IF StdDevBelow(v, Frac(3, 2)) /\ n >= 5
         THEN Item("Stabilna forma", 4)
       ELSE <<>>)
      \o
      (IF best # <<>> /\ best[1].winrate >= 70 /\ best[1].games >= 5
         THEN Item("pocket pick", 6)
       ELSE <<>>)

allImprovements(a) ==
  LET v == variance(a)
      n == Len(a.impactScores)
  IN  (IF Lt(a.avgImpact, Num(4)) THEN Item("Niski Impact", 10)
       ELSE IF Lt(a.avgImpact, Num(5)) THEN Item("Impact ponizej sredniej", 7)
       ELSE IF Lt(a.avgImpact, Frac(11, 2)) THEN Item("Przecietny wplyw", 4)
       ELSE <<>>)
      \o
      (IF a.winrate < 40 THEN Item("Winrate - przeanalizuj przegrane mecze", 10)
       ELSE IF a.winrate < 48
         THEN Item("Winrate - sprawdz szczegolowa analize", 7)
       ELSE IF a.winrate < 50 THEN Item("Blisko 50% WR", 4)
       ELSE <<>>)
      \o
      (IF Gt(a.avgKDA.deaths, Num(7)) THEN Item("smierci/gre", 9)
       ELSE IF Gt(a.avgKDA.deaths, Frac(11, 2)) THEN Item("Za duzo smierci", 6)
       ELSE IF Gt(a.avgKDA.deaths, Frac(9, 2))
         THEN Item("Smierci do optymalizacji", 3)
       ELSE <<>>)
      \o
      (IF Lt(avgKDA(a), Frac(3, 2)) THEN Item("KDA - momenty do poprawy", 8)
       ELSE IF Lt(avgKDA(a), Num(2)) THEN Item("Niskie KDA", 5)
       ELSE <<>>)
      \o
      (IF Lt(a.recentTrend, Frac(-1, 2)) THEN Item("Forma spada", 8)
       ELSE IF Lt(a.recentTrend, Frac(-1, 5)) THEN Item("Lekki spadek formy", 5)
       ELSE <<>>)
      \o
      (IF StdDevAbove(v, Frac(5, 2)) /\ n >= 5 THEN Item("Wahania formy", 6)
       ELSE IF StdDevAbove(v, Num(2)) /\ n >= 5 THEN Item("Niestabilna forma", 4)
       ELSE <<>>)
      \o
      (IF Lt(a.avgKDA.kills, Num(3)) /\ Lt(a.avgKDA.assists, Num(6))
         THEN Item("Niska aktywnosc", 5)
       ELSE <<>>)

\* the comparator (a, b) => b.priority - a.priority is positive
HigherPriority(b, a) ==
  b.priority - a.priority > 0

RECURSIVE InsertByPriority(_, _, _)
InsertByPriority(s, x, i) ==
  IF i > Len(s) THEN Append(s, x)
  ELSE IF HigherPriority(x, s[i])
    THEN SubSeq(s, 1, i - 1) \o <<x>> \o SubSeq(s, i, Len(s))
  ELSE InsertByPriority(s, x, i + 1)

RECURSIVE SortByPriority(_)
SortByPriority(s) ==
  IF s = <<>> THEN <<>>
  ELSE InsertByPriority(SortByPriority(SubSeq(s, 1, Len(s) - 1)), s[Len(s)], 1)

\* (mutant) the first two items as pushed, without the sort
TopTwo_Unsorted(items, fallback) ==
  IF Len(items) = 0 THEN Item(fallback, 0) ELSE Slice(items, 0, 2)

\* sort by priority, keep the first two, and fall back to the default item
TopTwo(items, fallback) ==
  LET top == Slice(SortByPriority(items), 0, 2)
  IN  IF Len(top) = 0 THEN Item(fallback, 0) ELSE top

strengths(a, best) ==
  TopTwo(allStrengths(a, best), "Graj wiecej zeby zobaczyc swoje mocne strony")

improvements(a) ==
  TopTwo(allImprovements(a), "Swietna robota! Kontynuuj obecny styl gry")

\* (mutant) the sentinel given below 4 samples only
TooFewSamples_Four(n) ==
  n < 4

\* the guard of getStability: analysis.impactScores.length < 5
TooFewSamples(n) ==
  n < 5

getStability(a) ==
  IF TooFewSamples(Len(a.impactScores)) THEN "Malo danych"
  ELSE LET v == Div(SumSquares(a.impactScores, a.avgImpact, 1, Len(a.impactScores)),
                    Num(Len(a.impactScores)))
       IN  IF StdDevBelow(v, Num(1)) THEN "Wysoka"
           ELSE IF StdDevBelow(v, Num(2)) THEN "Srednia"
           ELSE "Niska"

\* what one render of the page computes from matchesData
Render(md) ==
  With(recentAnalysis(recentMatches(md)), LAMBDA recentA :
  With(seasonAnalysis(md), LAMBDA seasonA :
  With(analysis(recentA, seasonA), LAMBDA a :
  With(bestChamp(a.champions), LAMBDA best :
    [recentAnalysis |-> recentA,
     seasonAnalysis |-> seasonA,
     analysis |-> a,
     bestChamp |-> best,
     allStrengths |-> allStrengths(a, best),
     allImprovements |-> allImprovements(a),
     strengths |-> strengths(a, best),
     improvements |-> improvements(a),
     stability |-> getStability(a)]))))

----------------------------------------------------------------------------
(* ProfilePage: the match histories tried, and the fetch of the matches.    *)

\* another player of the match
Other ==
  [NoParticipant EXCEPT
     !.puuid = "other", !.championName = "Garen", !.teamPosition = "TOP",
     !.teamId = 200, !.win = TRUE, !.kills = 9, !.deaths = 9, !.assists = 9,
     !.totalMinionsKilled = 150, !.goldEarned = 9000]

\* the account's participant in a 30-minute match, without deaths, whose
\* Impact Score is the integer n (1..9 for a win, 0..8 for a loss)
Played(n, w, pos, champ) ==
  LET u == n - (IF w THEN 1 ELSE 0)
      r == IF u > 2 THEN u - 2 ELSE 0
  IN  [NoParticipant EXCEPT
         !.puuid = AccountPuuid, !.championName = champ, !.teamPosition = pos,
         !.win = w,
         !.kills = IF u >= 1 THEN 3 ELSE 0,
         !.assists = IF u >= 2 THEN 3 ELSE 0,
         !.totalMinionsKilled = IF r >= 1 THEN 189 ELSE 0,
         !.neutralMinionsKilled = IF r >= 1 THEN 21 ELSE 0,
         !.visionScore = IF r >= 2 THEN 45 ELSE 0,
         !.totalDamageDealtToChampions = IF r >= 3 THEN 24000 ELSE 0,
         !.goldEarned = IF r >= 4 THEN 13500 ELSE 0,
         !.baronKills = IF r >= 5 THEN 1 ELSE 0,
         !.damageDealtToObjectives = IF r >= 6 THEN 18000 ELSE 0]

\* the account's participant in a lost match with six deaths
Feeder ==
  [NoParticipant EXCEPT
     !.puuid = AccountPuuid, !.championName = "Zed", !.teamPosition = "JUNGLE",
     !.win = FALSE, !.kills = 1, !.deaths = 6, !.assists = 1,
     !.totalMinionsKilled = 105]

\* match.info.teams of the matches of the histories
MatchTeams ==
  <<Team(100, TRUE, 1, 2, 5), Team(200, FALSE, 0, 4, 11)>>

\* a 30-minute match with the account in it
MatchOf(me) ==
  [info |-> [gameDuration |-> 1800, participants |-> <<Other, me>>,
             teams |-> MatchTeams]]

\* a match the account did not play in
AbsentMatch ==
  [info |-> [gameDuration |-> 1800, participants |-> <<Other>>,
             teams |-> MatchTeams]]

\* the response of /api/riot/match/<id> for one kind of match
Response(kind) ==
  CASE kind = "win" ->
         [ok |-> TRUE, match |-> MatchOf(Played(8, TRUE, "MIDDLE", "Ahri"))]
    [] kind = "loss" ->
         [ok |-> TRUE, match |-> MatchOf(Played(3, FALSE, "JUNGLE", "Zed"))]
    [] kind = "fill" ->
         [ok |-> TRUE, match |-> MatchOf(Played(5, TRUE, "", "Lux"))]
    [] kind = "feed" -> [ok |-> TRUE, match |-> MatchOf(Feeder)]
    [] kind = "absent" -> [ok |-> TRUE, match |-> AbsentMatch]
    [] OTHER -> [ok |-> FALSE]

\* the longest history in which every kind is tried at every place
MaxShort ==
  3

ShortKinds ==
  {"win", "feed", "fill", "absent", "error"}

ShortHistories ==
  UNION { { [i \in 1..n |-> Response(ks[i])] : ks \in [1..n -> ShortKinds] } :
          n \in 0..MaxShort }

\* up to 50 match ids are asked for: a run of wins, an absent match or none,
\* and a run of losses
WinRuns ==
  {10, 23}

LossRuns ==
  {10, 17}

BlockHistories ==
  { [i \in 1..(a + c + b) |->
       Response(IF i <= a THEN "win" ELSE IF i <= a + c THEN "absent" ELSE "loss")] :
    a \in WinRuns, c \in 0..1, b \in LossRuns }

\* the Impact Scores of a history, most recent first
ScenarioImpacts ==
  <<8, 7, 9, 6, 5, 4, 3, 6, 7, 5, 8, 4>>

ScenarioHistories ==
  { [i \in 1..n |->
       [ok |-> TRUE,
        match |-> MatchOf(Played(ScenarioImpacts[i], ScenarioImpacts[i] >= 6,
                                 "BOTTOM", "Jinx"))]] :
    n \in 0..Len(ScenarioImpacts) }

\* two champions: a wins on Ahri, the most recent, and then 5 games on Jinx
\* of which the first w are won
PocketHistories ==
  { [i \in 1..(a + 5) |->
       IF i <= a THEN Response("win")
       ELSE [ok |-> TRUE,
             match |-> MatchOf(Played(IF i - a <= w THEN 7 ELSE 4, i - a <= w,
                                      "BOTTOM", "Jinx"))]] :
    a \in {0, 3}, w \in {3, 4, 5} }

Histories ==
  ShortHistories \cup BlockHistories \cup ScenarioHistories \cup PocketHistories

\* the matches pushed by the loop: the responses that did not throw
Fetched(responses) ==
  LET okay == SelectSeq(responses, LAMBDA r : r.ok)
  IN  [i \in 1..Len(okay) |-> okay[i].match]

Init ==
  /\ pc = "loading"
  /\ upstream \in Histories
  /\ matchesData = <<>>
  /\ matchesLoading = TRUE
  /\ view = Render(<<>>)
  /\ proxy = ProxyIdle
  /\ home = HomeIdle
  /\ p = NoParticipant
  /\ gameDuration = 0
  /\ impactScore = Num(0)
  /\ participants = <<>>
  /\ teams = TeamsOmitted
  /\ rankings = <<>>

\* the effect with matchIds.length > 0: every match is requested in turn,
\* the failed requests are skipped, and the state is set once at the end
fetchMatches ==
  /\ pc = "loading"
  /\ Len(upstream) > 0
  /\ matchesData' = Fetched(upstream)
  /\ matchesLoading' = FALSE
  /\ view' = Render(matchesData')
  /\ pc' = "loaded"
  /\ UNCHANGED <<proxy, home, p, gameDuration, impactScore, participants, teams, rankings,
                 upstream>>

\* the effect with matchIds.length = 0: only setMatchesLoading(false)
noMatches ==
  /\ pc = "loading"
  /\ Len(upstream) = 0
  /\ matchesLoading' = FALSE
  /\ view' = Render(matchesData)
  /\ pc' = "loaded"
  /\ UNCHANGED <<proxy, home, p, gameDuration, impactScore, participants, teams, rankings,
                 upstream, matchesData>>

\* x.toFixed(0) of a non-negative number: the nearest integer, the larger one
\* of two equally near
ToFixed0(x) ==
  IF IsNaN(x) THEN "NaN"
  ELSE IF ~IsFinite(x) THEN "Infinity"
  ELSE ToString((2 * x[1] + x[2]) \div (2 * x[2]))

\* myRank?.score.toFixed(0) || '?' with myRank = rankings.get(id)
RowScoreText(rk, id) ==
  IF id \notin DOMAIN rk THEN "?" ELSE ToFixed0(rk[id].score)

\* myRank?.rank || '?'
RowRankText(rk, id) ==
  IF id \notin DOMAIN rk THEN "?"
  ELSE IF rk[id].rank = 0 THEN "?"
  ELSE ToString(rk[id].rank)

\* one row of the match list, computed by every render of the loaded page:
\* recentMatches.map((match, idx) => ...) skips a match without the account
\* and ranks the participants of the others.  The memoized analyses are kept,
\* their dependencies being the same arrays.
rankMatchRow ==
  /\ pc \in {"loaded", "row"}
  /\ \E idx \in 1..Len(recentMatches(matchesData)) :
       /\ FindParticipant(matchesData[idx].info.participants, AccountPuuid) # 0
       /\ rankings' = rankPlayersInMatch(matchesData[idx].info.participants,
                                         matchesData[idx].info.gameDuration,
                                         TeamsGiven(matchesData[idx].info.teams))
       /\ teams' = TeamsGiven(matchesData[idx].info.teams)
       /\ participants' = ParticipantsAfterRank(matchesData[idx].info.participants,
                                                matchesData[idx].info.gameDuration)
       /\ gameDuration' = matchesData[idx].info.gameDuration
       /\ matchesData' = [matchesData EXCEPT ![idx].info.participants = participants']
  /\ pc' = "row"
  /\ UNCHANGED <<proxy, home, p, impactScore, upstream, matchesLoading, view>>

Next ==
  \/ fetchMatches
  \/ noMatches
  \/ rankMatchRow

Spec ==
  Init /\ [][Next]_vars

----------------------------------------------------------------------------
(* Claims about calculateMatchImpact (SpecImpact).                          *)

\* C1: for every participant with non-negative counters and every game
\* duration, calculateMatchImpact returns a value v with 0 <= v <= 10.
C1_ImpactInRange ==
  pc = "impactDone" => Le(Num(0), impactScore) /\ Le(impactScore, Num(10))

\* a call on a positive duration whose sum of terms exceeded 10
C1_Witness ==
  /\ pc = "impactDone"
  /\ gameDuration > 0
  /\ impactScore = Num(10)
  /\ Gt(ImpactTotal(p, Div(Num(gameDuration), Num(60))), Num(10))

\* C10: calculateMatchImpact returns exactly 0 for every participant whenever
\* gameDurationSeconds <= 0 (a value is returned: no error).
C10_ZeroOnNonPositiveDuration ==
  (pc = "impactDone" /\ gameDuration <= 0) => impactScore = Num(0)

\* a call with duration 0 on a participant that has kills and a win
C10_Witness ==
  /\ pc = "impactDone"
  /\ gameDuration = 0
  /\ p.kills > 0
  /\ p.win
  /\ impactScore = Num(0)

\* C11: when the game duration is missing (undefined) rather than a number,
\* calculateMatchImpact returns 0, and not an error, undefined or NaN.
C11_ZeroOnMissingDuration ==
  pc = "impactUndefined" => impactScore = Num(0)

\* the value returned on a missing duration is not a number
C11_ReturnsNaN ==
  pc = "impactUndefined" => IsNaN(impactScore)

\* a call without a duration on a participant that has kills and a win
C11_Witness ==
  /\ pc = "impactUndefined"
  /\ p.kills > 0
  /\ p.win
  /\ IsNaN(impactScore)

\* min(x, cap) of a term of the Impact Score
CappedAt(x, cap) ==
  IF Lt(cap, x) THEN cap ELSE x

\* S of the claim: the eight terms, each one a single fraction of the
\* counters and of the duration in seconds
ClaimedSum(q, seconds) ==
  LET kdaTerm == IF q.deaths = 0 THEN Frac(q.kills + q.assists, 3)
                 ELSE Frac(q.kills + q.assists, 3 * q.deaths)
      csTerm == Frac(60 * (q.totalMinionsKilled + q.neutralMinionsKilled),
                     7 * seconds)
      visionTerm == Frac(120 * q.visionScore, 3 * seconds)
      damageTerm == Frac(60 * q.totalDamageDealtToChampions, 800 * seconds)
      goldTerm == Frac(60 * q.goldEarned, 450 * seconds)
      objectiveTerm == Frac(3 * q.turretKills + 5 * q.inhibitorKills
                            + 6 * q.dragonKills + 10 * q.baronKills, 10)
      objectiveDamageTerm == Frac(60 * q.damageDealtToObjectives, 600 * seconds)
      terms == <<CappedAt(kdaTerm, Frac(5, 2)), CappedAt(csTerm, Frac(3, 2)),
                 CappedAt(visionTerm, Num(1)), CappedAt(damageTerm, Frac(3, 2)),
                 CappedAt(goldTerm, Num(1)), CappedAt(objectiveTerm, Frac(3, 2)),
                 CappedAt(objectiveDamageTerm, Num(1)),
                 IF q.win THEN Num(1) ELSE Num(0)>>
  IN  SumScores(terms, 1, Len(terms))

\* P of the claim: min((deaths / minutes) * 0.8, 2)
ClaimedPenalty(q, seconds) ==
  CappedAt(Frac(240 * q.deaths, 5 * seconds), Num(2))

\* clamp(S - P, 0, 10)
ClaimedImpact(q, seconds) ==
  LET d == Sub(ClaimedSum(q, seconds), ClaimedPenalty(q, seconds))
  IN  IF Lt(d, Num(0)) THEN Num(0) ELSE IF Lt(Num(10), d) THEN Num(10) ELSE d

\* the participant of the 30-minute scenario
IsScenarioParticipant(q) ==
  /\ q.kills = 10 /\ q.deaths = 2 /\ q.assists = 5 /\ q.win
  /\ q.totalMinionsKilled + q.neutralMinionsKilled = 200
  /\ q.visionScore = 30
  /\ q.totalDamageDealtToChampions = 18000
  /\ q.goldEarned = 14000
  /\ q.turretKills = 0 /\ q.inhibitorKills = 0 /\ q.dragonKills = 0
  /\ q.baronKills = 0 /\ q.damageDealtToObjectives = 0

\* x is 6.82 when written with two decimals
IsAbout682(x) ==
  Le(Frac(6815, 1000), x) /\ Lt(x, Frac(6825, 1000))

\* C12: for gameDuration > 0, calculateMatchImpact equals clamp(S - P, 0, 10),
\* S the sum of the eight capped terms and P = min((deaths/minutes)*0.8, 2);
\* for the 30-minute scenario the result is about 6.82.
C12_ImpactIsClampedSum ==
  (pc = "impactDone" /\ gameDuration > 0) =>
    /\ impactScore = ClaimedImpact(p, gameDuration)
    /\ (gameDuration = 1800 /\ IsScenarioParticipant(p)) => IsAbout682(impactScore)

\* the 30-minute scenario has been scored: its KDA and gold terms are cut
\* at their caps
C12_Witness ==
  /\ pc = "impactDone"
  /\ gameDuration = 1800
  /\ IsScenarioParticipant(p)
  /\ IsAbout682(impactScore)
  /\ impactScore = Frac(14313, 2100)

----------------------------------------------------------------------------
(* Claims about rankPlayersInMatch (SpecRank).                              *)

DistinctIds(ps) ==
  \A i, j \in 1..Len(ps) : ps[i].puuid = ps[j].puuid => i = j

C3_ScoreInRange ==
  pc = "rankDone" =>
    \A k \in DOMAIN rankings :
      Le(Num(0), rankings[k].score) /\ Le(rankings[k].score, Num(100))

\* a ranked participant whose weighted sum exceeds the role maximum
C3_Witness ==
  /\ pc = "rankDone"
  /\ \E i \in 1..10 :
       LET b == Breakdown(participants[i], participants, gameDuration)
       IN  /\ participants[i].puuid \in DOMAIN rankings
           /\ rankings[participants[i].puuid].score = Num(100)
           /\ Gt(NormalizedScore_Raw(b, participants[i].teamPosition), Num(100))

\* C4 (as claimed): each of the 9 category values is non-negative and at most
\* its cap in categoryMax.
C4_CategoriesWithinCaps ==
  pc = "rankDone" =>
    \A k \in DOMAIN rankings : \A c \in Categories :
      /\ Le(Num(0), rankings[k].breakdown[c])
      /\ Le(rankings[k].breakdown[c], Num(categoryMax[c]))

\* every raw input of the scoring (counters, flags, role, win) is the same
AllTied(ps) ==
  \A i, j \in 1..Len(ps) :
    [ps[i] EXCEPT !.puuid = "", !.teamId = 0] = [ps[j] EXCEPT !.puuid = "", !.teamId = 0]

\* every counter and flag of the participants is the same; the role and the
\* win flag are left free, as in a match with five lanes and one winning team
StatsTied(ps) ==
  \A i, j \in 1..Len(ps) :
    [ps[i] EXCEPT !.puuid = "", !.teamId = 0, !.win = FALSE, !.teamPosition = ""]
      = [ps[j] EXCEPT !.puuid = "", !.teamId = 0, !.win = FALSE, !.teamPosition = ""]

\* C6 (as worded): if all 10 participants are tied on every raw stat, all get
\* the same normalized score and the ranks 1..10 follow the input order.
C6_TiedStatsSameScore ==
  (pc = "rankDone" /\ gameDuration > 0 /\ DistinctIds(participants)
     /\ StatsTied(participants)) =>
    \A i \in 1..10 :
      /\ rankings[participants[i].puuid].rank = i
      /\ rankings[participants[i].puuid].score = rankings[participants[1].puuid].score

\* C6 (amended): if all 10 participants are tied on every input of the
\* scoring, the role and the win flag included, and the game duration is
\* positive, all get the same normalized score and the ranks 1..10 follow
\* the input order.
C6_TiesKeepInputOrder ==
  (pc = "rankDone" /\ gameDuration > 0 /\ DistinctIds(participants)
     /\ AllTied(participants)) =>
    \A i \in 1..10 :
      /\ rankings[participants[i].puuid].rank = i
      /\ rankings[participants[i].puuid].score = rankings[participants[1].puuid].score

\* ten tied active participants, ranked, with a positive score
C6_Witness ==
  /\ pc = "rankDone"
  /\ gameDuration > 0
  /\ DistinctIds(participants)
  /\ AllTied(participants)
  /\ participants[1].kills > 0
  /\ Gt(rankings[participants[10].puuid].score, Num(0))
  /\ rankings[participants[10].puuid].rank = 10

----------------------------------------------------------------------------
(* Claims about the aggregation windows and the feedback (Spec).            *)

\* the account plays in match m
Present(m) ==
  \E i \in 1..Len(m.info.participants) :
    m.info.participants[i].puuid = AccountPuuid

\* the account's snapshot in a match it plays in
Snapshot(m) ==
  LET ps == m.info.participants
  IN  ps[CHOOSE i \in 1..Len(ps) :
           ps[i].puuid = AccountPuuid /\ \A j \in 1..(i - 1) : ps[j].puuid # AccountPuuid]

\* the number of matches of ms the account plays in and wins / loses
WinsIn(ms) ==
  Cardinality({ i \in 1..Len(ms) : Present(ms[i]) /\ Snapshot(ms[i]).win })

LossesIn(ms) ==
  Cardinality({ i \in 1..Len(ms) : Present(ms[i]) /\ ~Snapshot(ms[i]).win })

\* ms with the matches removed in which the account does not play
WithoutAbsent(ms) ==
  SelectSeq(ms, Present)

\* the average of a list, 0 for the empty list
AverageOrZero(scores) ==
  IF Len(scores) = 0 THEN Num(0) ELSE Average(scores)

\* the trend as the claim words it: the baseline is the average of the whole
\* list whenever fewer than 5 scores stand at index 5..9
ClaimedTrend(scores) ==
  LET first5 == Slice(scores, 0, 5)
      next5 == Slice(scores, 5, 10)
  IN  Sub(AverageOrZero(first5),
          IF Len(next5) < 5 THEN AverageOrZero(scores) ELSE Average(next5))

\* C5: the trend of the recent window is avg(first 5) - avg(index 5..9), with
\* the average of the whole impact list as the baseline whenever the second
\* slice has fewer than 5 entries ([8,7,9,6,5,4,3] gives 7 - 6 = 1).
C5_TrendFallsBackBelowFive ==
  pc = "loaded" =>
    view.recentAnalysis.recentTrend
      = ClaimedTrend(view.recentAnalysis.impactScores)

\* round(100 * wins / (wins + losses)), halves rounded up, 0 without games
RoundedRatio(wins, losses) ==
  IF wins + losses = 0 THEN 0
  ELSE (200 * wins + (wins + losses)) \div (2 * (wins + losses))

\* C7: in the recent and in the season window the win rate is 0 without games
\* and round(100 * wins / (wins + losses)) otherwise, counting the window's
\* matches the account plays in.
C7_WinrateIsRoundedRatio ==
  pc = "loaded" =>
    /\ view.recentAnalysis.winrate
         = RoundedRatio(WinsIn(recentMatches(matchesData)),
                        LossesIn(recentMatches(matchesData)))
    /\ view.seasonAnalysis.winrate
         = RoundedRatio(WinsIn(matchesData), LossesIn(matchesData))

\* C8 (as worded): for both windows, aggregating the fetched list gives what
\* aggregating the list without its absent-player matches gives.
C8_AbsentMatchesRemovable ==
  pc = "loaded" =>
    /\ view.seasonAnalysis = seasonAnalysis(WithoutAbsent(matchesData))
    /\ view.recentAnalysis
         = recentAnalysis(recentMatches(WithoutAbsent(matchesData)))

\* C8 (amended): the season aggregation of the fetched list equals that of the
\* list without its absent-player matches; the recent aggregation equals that
\* of its own window (the first 20 fetched matches) without the absent-player
\* matches, and equals the recent aggregation of the list without them
\* whenever the list has at most 20 matches.
C8_AbsentMatchesContributeNothing ==
  pc = "loaded" =>
    /\ view.seasonAnalysis = seasonAnalysis(WithoutAbsent(matchesData))
    /\ view.recentAnalysis
         = recentAnalysis(WithoutAbsent(recentMatches(matchesData)))
    /\ Len(matchesData) <= RecentWindow =>
         view.recentAnalysis
           = recentAnalysis(recentMatches(WithoutAbsent(matchesData)))

\* an absent-player match stands among played ones in a list of more than 20
C8_Witness ==
  /\ pc = "loaded"
  /\ Len(matchesData) > RecentWindow
  /\ \E i \in 2..RecentWindow : ~Present(matchesData[i])
  /\ view.seasonAnalysis.wins > 0
  /\ view.seasonAnalysis.losses > 0
  /\ Len(view.recentAnalysis.impactScores) = RecentWindow - 1

StabilityTexts ==
  {"Bardzo konsekwentna gra", "Stabilna forma", "Wahania formy",
   "Niestabilna forma"}

\* a pool holds an item of a stability rule
HasStabilityItem(items) ==
  \E i \in 1..Len(items) : items[i].text \in StabilityTexts

\* C9: with fewer than 5 impact samples the stability label is 'Malo danych'
\* and neither pool holds an item of a stability rule.
C9_FewSamplesNoStability ==
  Len(view.analysis.impactScores) < 5 =>
    /\ view.stability = "Malo danych"
    /\ ~HasStabilityItem(view.allStrengths)
    /\ ~HasStabilityItem(view.allImprovements)
    /\ ~HasStabilityItem(view.strengths)
    /\ ~HasStabilityItem(view.improvements)

\* four samples whose spread is below 1.5: enough for a stability strength
\* and for a band, were four samples enough
C9_Witness ==
  /\ pc = "loaded"
  /\ Len(view.analysis.impactScores) = 4
  /\ StdDevBelow(Div(SumSquares(view.analysis.impactScores,
                                view.analysis.avgImpact, 1, 4), Num(4)),
                 Frac(3, 2))
  /\ view.stability = "Malo danych"

----------------------------------------------------------------------------
(* Claims about the feedback pools (Spec).                                  *)

DefaultStrength ==
  Item("Graj wiecej zeby zobaczyc swoje mocne strony", 0)

DefaultImprovement ==
  Item("Swietna robota! Kontynuuj obecny styl gry", 0)

\* top holds the highest-priority items of all, in non-increasing priority
\* order, at most 2 of them, and the default alone iff all is empty
IsTopOfPool(top, all, default) ==
  /\ Len(top) \in {1, 2}
  /\ (top = default) <=> (Len(all) = 0)
  /\ Len(all) > 0 =>
       /\ Len(top) = (IF Len(all) < 2 THEN Len(all) ELSE 2)
       /\ \A i \in 1..Len(top) : \E j \in 1..Len(all) : top[i] = all[j]
       /\ \A i, j \in 1..Len(top) : i # j => top[i] # top[j]
       /\ \A i \in 1..(Len(top) - 1) : top[i].priority >= top[i + 1].priority
       /\ \A j \in 1..Len(all) :
            (\A i \in 1..Len(top) : top[i] # all[j]) =>
              \A i \in 1..Len(top) : all[j].priority <= top[i].priority

\* C13: each feedback pool returned to the view contains the highest-priority
\* items among the satisfied rules of that pool, in non-increasing priority
\* order, truncated to at most 2; it holds the single default message iff no
\* rule of the pool was satisfied, so each pool always has 1 or 2 items.
C13_PoolsAreTopTwo ==
  /\ IsTopOfPool(view.strengths, view.allStrengths, DefaultStrength)
  /\ IsTopOfPool(view.improvements, view.allImprovements, DefaultImprovement)

\* three or more strengths were pushed with a lower priority ahead of a
\* higher one, and no improvement rule was satisfied
C13_Witness ==
  /\ pc = "loaded"
  /\ Len(view.allStrengths) >= 3
  /\ view.allStrengths[1].priority < view.allStrengths[2].priority
  /\ view.strengths[1] # view.allStrengths[1]
  /\ Len(view.allImprovements) = 0
  /\ view.improvements = DefaultImprovement

----------------------------------------------------------------------------
(* Claims about purity (Spec).                                              *)

\* a step of the loaded page leaves the match list and the analyses as they are
MatchesKept ==
  pc \in {"loaded", "row"} => (matchesData' = matchesData /\ view' = view)

\* a second ranking of the same participants and duration returns the same Map
EqualCallsEqualResults ==
  (pc = "row" /\ participants' = participants /\ gameDuration' = gameDuration
     /\ teams' = teams)
    => rankings' = rankings

----------------------------------------------------------------------------
(* Claims about the best champion (Spec).                                   *)

\* the champions of the season window with 5 games or more
EligibleChampions ==
  { i \in 1..Len(view.analysis.champions) : view.analysis.champions[i].games >= 5 }

\* a is at least as good as b by win rate: a.wins/a.games >= b.wins/b.games
WinrateAtLeast(a, b) ==
  a.wins * b.games >= b.wins * a.games

HasPocketPick ==
  \E i \in 1..Len(view.allStrengths) : view.allStrengths[i].text = "pocket pick"

\* C15: the best champion used by the feedback rule is the champion with the
\* highest win rate among the champions with at least 5 games in the season
\* window; whenever some champion has >= 5 games and a win rate >= 70%, the
\* 'pocket pick' strength item is produced.
C15_BestChampFromFiveGames ==
  LET champions == view.analysis.champions
  IN  /\ (EligibleChampions = {}) <=> (view.bestChamp = <<>>)
      /\ EligibleChampions # {} =>
           \E i \in EligibleChampions :
             /\ view.bestChamp[1].name = champions[i].name
             /\ \A j \in EligibleChampions : WinrateAtLeast(champions[i], champions[j])
      /\ (\E i \in EligibleChampions :
             RoundPercent(champions[i].wins, champions[i].games) >= 70)
           => HasPocketPick

----------------------------------------------------------------------------
(* Claims about the windows (Spec).                                         *)

\* min(20, n)
WindowSize(n) ==
  IF n < RecentWindow THEN n ELSE RecentWindow

\* the first min(20, len) entries of the list
FirstEntries(md) ==
  [i \in 1..WindowSize(Len(md)) |-> md[i]]

\* the list with every match at index >= 20 replaced by another match
BeyondWindowReplaced(md) ==
  [i \in 1..Len(md) |-> IF i > RecentWindow THEN MatchOf(Feeder) ELSE md[i]]

\* C16: the recent window consists of exactly the first min(20, len(matches))
\* entries of the most-recent-first match list and the season window of all
\* entries; the recent aggregation never uses a match at index >= 20.
C16_Windows ==
  /\ view.recentAnalysis = recentAnalysis(FirstEntries(matchesData))
  /\ view.seasonAnalysis = seasonAnalysis([i \in 1..Len(matchesData) |-> matchesData[i]])
  /\ view.seasonAnalysis.totalGames = Len(Counted(matchesData))
  /\ Len(view.seasonAnalysis.impactScores) = Len(Counted(matchesData))
  /\ Len(view.recentAnalysis.impactScores) = Len(Counted(FirstEntries(matchesData)))
  /\ view.recentAnalysis
       = recentAnalysis(FirstEntries(BeyondWindowReplaced(matchesData)))

\* more than 20 matches are loaded, and matches behind the twentieth count in
\* the season window only
C16_Witness ==
  /\ pc = "loaded"
  /\ Len(matchesData) > RecentWindow
  /\ Len(view.recentAnalysis.impactScores) = RecentWindow
  /\ view.recentAnalysis.wins + view.recentAnalysis.losses = RecentWindow
  /\ view.seasonAnalysis.totalGames = Len(matchesData)
  /\ view.seasonAnalysis.losses > view.recentAnalysis.losses
  /\ view.seasonAnalysis.winrate # view.recentAnalysis.winrate

----------------------------------------------------------------------------
(* Claims about the lane statistics (Spec).                                 *)

KnownRoles ==
  {"TOP", "JUNGLE", "MIDDLE", "BOTTOM", "UTILITY"}

KnownLanes ==
  {"Top", "Jng", "Mid", "Adc", "Sup"}

\* the role label behind a lane key
RoleOfLane(lane) ==
  CASE lane = "Top" -> "TOP"
    [] lane = "Jng" -> "JUNGLE"
    [] lane = "Mid" -> "MIDDLE"
    [] lane = "Adc" -> "BOTTOM"
    [] lane = "Sup" -> "UTILITY"

\* the account's participants in the matches of a window, in order
AccountParticipants(ms) ==
  LET counted == SelectSeq(ms, LAMBDA m : \E i \in 1..Len(m.info.participants) :
                                           m.info.participants[i].puuid = AccountPuuid)
  IN  [i \in 1..Len(counted) |->
         LET ps == counted[i].info.participants
         IN  ps[CHOOSE k \in 1..Len(ps) :
                  ps[k].puuid = AccountPuuid
                  /\ \A j \in 1..(k - 1) : ps[j].puuid # AccountPuuid]]

\* the number of participants of qs that satisfy Test
CountOf(qs, Test(_)) ==
  Cardinality({ i \in 1..Len(qs) : Test(qs[i]) })

\* lanes holds a key exactly for the known roles played, with the games and
\* the wins of the matches played in that role
LanesCountKnownRoles(lanes, qs) ==
  /\ DOMAIN lanes \subseteq KnownLanes
  /\ \A lane \in KnownLanes :
       LET games == CountOf(qs, LAMBDA q : q.teamPosition = RoleOfLane(lane))
           wins == CountOf(qs, LAMBDA q : q.teamPosition = RoleOfLane(lane) /\ q.win)
       IN  IF games = 0 THEN lane \notin DOMAIN lanes
           ELSE lane \in DOMAIN lanes /\ lanes[lane] = [games |-> games, wins |-> wins]

\* wins, losses, the KDA sums and the impact list count every participant of
\* qs, whatever the role
TotalsCountEveryRole(a, qs) ==
  /\ a.wins = CountOf(qs, LAMBDA q : q.win)
  /\ a.losses = CountOf(qs, LAMBDA q : ~q.win)
  /\ Len(a.impactScores) = Len(qs)
  /\ Len(qs) > 0 =>
       /\ a.avgKDA.kills = Frac(SumInts([i \in 1..Len(qs) |-> qs[i].kills], 1, Len(qs)),
                                 Len(qs))
       /\ a.avgKDA.deaths = Frac(SumInts([i \in 1..Len(qs) |-> qs[i].deaths], 1, Len(qs)),
                                  Len(qs))
       /\ a.avgKDA.assists = Frac(SumInts([i \in 1..Len(qs) |-> qs[i].assists], 1, Len(qs)),
                                   Len(qs))

\* every participant of qs is counted in the games of its champion
ChampionsCountEveryRole(champions, qs) ==
  \A i \in 1..Len(qs) :
    \E k \in 1..Len(champions) :
      /\ champions[k].name = qs[i].championName
      /\ champions[k].games = CountOf(qs, LAMBDA q : q.championName = qs[i].championName)

\* C17: a match in which the target player's role is unknown adds nothing to
\* any lane's {games, wins} but is still counted in wins/losses, total games,
\* KDA sums, champion stats and the impact list; lane stats only ever have
\* keys among the 5 known lanes.
C17_UnknownRoleOutsideLanes ==
  LET season == AccountParticipants(matchesData)
      recent == AccountParticipants(FirstEntries(matchesData))
  IN  /\ LanesCountKnownRoles(view.seasonAnalysis.lanes, season)
      /\ LanesCountKnownRoles(view.recentAnalysis.lanes, recent)
      /\ LanesCountKnownRoles(view.analysis.lanes, season)
      /\ TotalsCountEveryRole(view.seasonAnalysis, season)
      /\ TotalsCountEveryRole(view.recentAnalysis, recent)
      /\ view.seasonAnalysis.totalGames = Len(season)
      /\ ChampionsCountEveryRole(view.seasonAnalysis.champions, season)

\* a match played without a role next to one played in a lane: the lane has
\* one game, the totals two, and the champion of the match without a role
\* has its game
C17_Witness ==
  /\ pc = "loaded"
  /\ \E i \in 1..Len(matchesData) :
       /\ Len(matchesData[i].info.participants) = 2
       /\ matchesData[i].info.participants[2].teamPosition = ""
       /\ matchesData[i].info.participants[2].win
  /\ DOMAIN view.seasonAnalysis.lanes = {"Mid"}
  /\ view.seasonAnalysis.lanes["Mid"] = [games |-> 1, wins |-> 1]
  /\ view.seasonAnalysis.totalGames = 2
  /\ view.seasonAnalysis.wins = 2
  /\ \E k \in 1..Len(view.seasonAnalysis.champions) :
       view.seasonAnalysis.champions[k].name = "Lux"

\* the sum of F over the participants, before any floor
RawSum(ps, F(_)) ==
  SeqSum([i \in 1..Len(ps) |-> F(ps[i])])

\* x / divisor is 0 whenever the sum that the divisor floors is 0
ShareIsZeroOnZeroSum(x, divisor, sum) ==
  /\ divisor >= 1
  /\ IsFinite(Div(Num(x), Num(divisor)))
  /\ sum = 0 => Div(Num(x), Num(divisor)) = Num(0)

\* the eight match-wide totals are at least 1 and turn a zero sum into the
\* share 0 of participant q
MatchSharesDefined(q, ps) ==
  LET tot == Totals(ps)
  IN  /\ ShareIsZeroOnZeroSum(q.kills, tot.totalKills,
                              RawSum(ps, LAMBDA r : r.kills))
      /\ ShareIsZeroOnZeroSum(q.totalDamageDealtToChampions, tot.totalDmg,
                              RawSum(ps, LAMBDA r : r.totalDamageDealtToChampions))
      /\ ShareIsZeroOnZeroSum(q.goldEarned, tot.totalGold,
                              RawSum(ps, LAMBDA r : r.goldEarned))
      /\ ShareIsZeroOnZeroSum(q.visionScore, tot.totalVision,
                              RawSum(ps, LAMBDA r : r.visionScore))
      /\ ShareIsZeroOnZeroSum(q.totalDamageTaken, tot.totalDmgTaken,
                              RawSum(ps, LAMBDA r : r.totalDamageTaken))
      /\ ShareIsZeroOnZeroSum(q.damageDealtToObjectives, tot.totalObjDmg,
                              RawSum(ps, LAMBDA r : r.damageDealtToObjectives))
      /\ ShareIsZeroOnZeroSum(q.timeCCingOthers, tot.totalCC,
                              RawSum(ps, LAMBDA r : r.timeCCingOthers))
      /\ ShareIsZeroOnZeroSum(q.totalHealsOnTeammates + q.totalDamageShieldedOnTeammates,
                              tot.totalHealing,
                              RawSum(ps, LAMBDA r : r.totalHealsOnTeammates
                                                    + r.totalDamageShieldedOnTeammates))

\* the three totals of q's team are at least 1 and turn a zero sum into the
\* share 0 of participant q
TeamSharesDefined(q, ps) ==
  /\ ShareIsZeroOnZeroSum(q.kills + q.assists,
                          TeamDenominator(teamKills(ps, q.teamId)),
                          teamKills(ps, q.teamId))
  /\ ShareIsZeroOnZeroSum(q.goldEarned,
                          TeamDenominator(teamGold(ps, q.teamId)),
                          teamGold(ps, q.teamId))
  /\ ShareIsZeroOnZeroSum(q.totalDamageDealtToChampions,
                          TeamDenominator(teamDmg(ps, q.teamId)),
                          teamDmg(ps, q.teamId))

\* the categories built from shares only are 0 for a participant whose sums
\* are 0, and every category is a finite number
CategoriesDefined(q, ps, duration) ==
  LET b == Breakdown(q, ps, duration)
  IN  /\ \A c \in Categories : IsFinite(b[c])
      /\ teamDmg(ps, q.teamId) = 0 => b.damage = Num(0)
      /\ RawSum(ps, LAMBDA r : r.timeCCingOthers + r.totalHealsOnTeammates
                               + r.totalDamageShieldedOnTeammates
                               + r.totalDamageTaken) = 0
           => b.utility = Num(0)
      /\ teamKills(ps, q.teamId) = 0 /\ teamGold(ps, q.teamId) = 0
           /\ teamDmg(ps, q.teamId) = 0
           => b.winContribution = Num(0)

\* C18: every divisor used by rankPlayersInMatch (the 8 match-wide totals and
\* the 3 per-team totals of the participant's team) is at least 1, so when a
\* match total or team total is 0 no division by zero occurs and the
\* corresponding share term of every participant is 0 (a defined number).
C18_DivisorsAtLeastOne ==
  pc = "rankDone" =>
    \A i \in 1..Len(participants) :
      /\ MatchSharesDefined(participants[i], participants)
      /\ TeamSharesDefined(participants[i], participants)
      /\ gameDuration > 0 =>
           CategoriesDefined(participants[i], participants, gameDuration)

\* a ranked match in which nobody has a kill, gold, damage, vision, crowd
\* control or healing: all eleven sums are 0 and every participant is scored
C18_Witness ==
  /\ pc = "rankDone"
  /\ gameDuration > 0
  /\ Len(participants) = 10
  /\ \A f \in DOMAIN Totals(participants) : Totals(participants)[f] = 1
  /\ \A tid \in {100, 200} :
       teamKills(participants, tid) + teamGold(participants, tid)
         + teamDmg(participants, tid) = 0
  /\ \A i \in 1..10 : participants[i].puuid \in DOMAIN rankings
  /\ \A id \in DOMAIN rankings : rankings[id].breakdown.damage = Num(0)

\* min(100, 100 * (sum of value * weight) / (sum of cap * weight)) with the
\* weights w
ClaimedScore(b, w) ==
  MathMin(Num(100),
          Div(Mul(Num(100), CategorySum(LAMBDA k : Mul(b[k], w[k]))),
              CategorySum(LAMBDA k : Mul(Num(categoryMax[k]), w[k]))))

\* the weight 1.00 for every category
DefaultWeights ==
  [k \in Categories |-> Num(1)]

\* the breakdown whose nine values equal their caps
CapBreakdown ==
  [k \in Categories |-> Num(categoryMax[k])]

\* the role labels: the five lanes and the label of a match without roles
RoleLabels ==
  KnownRoles \cup {""}

\* C19: for every role (TOP, JUNGLE, MIDDLE, BOTTOM, UTILITY, unknown/default),
\* the normalized score equals min(100, 100 * (sum over categories of
\* value*roleWeight) / (sum over categories of cap*roleWeight)); hence a
\* participant whose 9 category values each equal their cap scores exactly 100
\* whatever the role, and an unknown role label uses the all-1.00 default
\* weights.
C19_ScoreIsRoleNormalized ==
  (pc = "rankDone" /\ gameDuration > 0) =>
    \A i \in 1..Len(participants) :
      LET q == participants[i]
          b == Breakdown(q, participants, gameDuration)
      IN  /\ q.teamPosition \in RoleLabels
          /\ \E k \in 1..Len(participants) :
               /\ participants[k].puuid = q.puuid
               /\ rankings[q.puuid].breakdown
                    = Breakdown(participants[k], participants, gameDuration)
               /\ rankings[q.puuid].score
                    = ClaimedScore(rankings[q.puuid].breakdown,
                                   roleWeights(participants[k].teamPosition))
          /\ NormalizedScore(b, q.teamPosition)
               = ClaimedScore(b, roleWeights(q.teamPosition))
          /\ NormalizedScore(CapBreakdown, q.teamPosition) = Num(100)
          /\ q.teamPosition \notin KnownRoles =>
               /\ roleWeights(q.teamPosition) = DefaultWeights
               /\ NormalizedScore(b, q.teamPosition) = ClaimedScore(b, DefaultWeights)

\* two ranked participants with the same nine category values and different
\* roles have different scores, both below 100
C19_Witness ==
  /\ pc = "rankDone"
  /\ gameDuration > 0
  /\ \E i \in 1..10, j \in 1..10 :
       LET qi == participants[i]
           qj == participants[j]
       IN  /\ qi.teamPosition = "MIDDLE"
           /\ qj.teamPosition = "UTILITY"
           /\ rankings[qi.puuid].breakdown = rankings[qj.puuid].breakdown
           /\ Lt(Num(0), rankings[qj.puuid].score)
           /\ Lt(rankings[qj.puuid].score, rankings[qi.puuid].score)
           /\ Lt(rankings[qi.puuid].score, Num(100))
           /\ rankings[qi.puuid].score
                = ClaimedScore(rankings[qi.puuid].breakdown, roleWeights("MIDDLE"))

\* the mean of a non-empty list of numbers
MeanOf(xs) ==
  Div(SumScores(xs, 1, Len(xs)), Num(Len(xs)))

\* the square of the population standard deviation of a non-empty list: the
\* mean of the squared distances from the mean
PopulationVariance(xs) ==
  Div(SumSquares(xs, MeanOf(xs), 1, Len(xs)), Num(Len(xs)))

\* the class of a list with population standard deviation s: s < 1, 1 <= s < 2,
\* s >= 2, decided on s * s
StabilityClass(xs) ==
  CASE Lt(PopulationVariance(xs), Num(1)) -> "Wysoka"
    [] Le(Num(1), PopulationVariance(xs)) /\ Lt(PopulationVariance(xs), Num(4))
         -> "Srednia"
    [] Le(Num(4), PopulationVariance(xs)) -> "Niska"

MinSamples ==
  5

\* C20: the stability classification is a function of the population standard
\* deviation s of the window's impact list: 'high' (Wysoka) if s < 1, 'medium'
\* (Srednia) if 1 <= s < 2, 'low' (Niska) if s >= 2, for every list of at
\* least 5 samples.
C20_StabilityByStdDev ==
  Len(view.recentAnalysis.impactScores) >= MinSamples =>
    /\ view.analysis.impactScores = view.recentAnalysis.impactScores
    /\ view.stability = StabilityClass(view.recentAnalysis.impactScores)

\* seven samples of the window with mean 6 and standard deviation exactly 2:
\* the class is low
C20_Witness ==
  /\ pc = "loaded"
  /\ Len(view.recentAnalysis.impactScores) = 7
  /\ MeanOf(view.recentAnalysis.impactScores) = Num(6)
  /\ PopulationVariance(view.recentAnalysis.impactScores) = Num(4)
  /\ view.stability = "Niska"

\* five samples with standard deviation between 1 and 2: the class is medium
C20_WitnessMedium ==
  /\ pc = "loaded"
  /\ Len(view.recentAnalysis.impactScores) = 5
  /\ PopulationVariance(view.recentAnalysis.impactScores) = Num(2)
  /\ view.stability = "Srednia"

\* five equal samples: the class is high
C20_WitnessHigh ==
  /\ pc = "loaded"
  /\ Len(view.recentAnalysis.impactScores) = 5
  /\ PopulationVariance(view.recentAnalysis.impactScores) = Num(0)
  /\ view.stability = "Wysoka"

\* the fields of the combined view taken from the season window
SeasonFields ==
  {"wins", "losses", "winrate", "avgKDA", "totalGames", "lanes", "champions"}

\* the fields of the combined view taken from the recent window
RecentFields ==
  {"impactScores", "avgImpact", "recentTrend"}

\* the stability of an impact list
StabilityOf(xs) ==
  IF Len(xs) < MinSamples THEN "Malo danych" ELSE StabilityClass(xs)

\* C21: in the combined view, totals (wins, losses, win rate, average KDA,
\* total games, lane stats, champion stats) come from the season window over
\* all matches, while the impact list, average impact and trend come from the
\* recent window (first 20 matches); stability is computed from the recent
\* window's impact list and the recent window's average.
C21_CombinedView ==
  LET season == AccountParticipants(matchesData)
      recent == AccountParticipants(FirstEntries(matchesData))
  IN  /\ DOMAIN view.analysis = SeasonFields \cup RecentFields
      /\ \A f \in SeasonFields : view.analysis[f] = view.seasonAnalysis[f]
      /\ \A f \in RecentFields : view.analysis[f] = view.recentAnalysis[f]
      /\ view.analysis.totalGames = Len(season)
      /\ view.analysis.wins + view.analysis.losses = Len(season)
      /\ Len(view.analysis.impactScores) = Len(recent)
      /\ Len(recent) > 0 => view.analysis.avgImpact = MeanOf(view.recentAnalysis.impactScores)
      /\ view.stability = StabilityOf(view.recentAnalysis.impactScores)

\* a season of more matches than the window, whose older matches change the
\* class: the combined view has the season's games, the window's 20 impact
\* scores, and the stability of those 20
C21_Witness ==
  /\ pc = "loaded"
  /\ view.analysis.totalGames > RecentWindow
  /\ Len(view.analysis.impactScores) = RecentWindow
  /\ Len(view.seasonAnalysis.impactScores) = view.analysis.totalGames
  /\ view.analysis.avgImpact # view.seasonAnalysis.avgImpact
  /\ view.stability = StabilityOf(view.recentAnalysis.impactScores)
  /\ view.stability # StabilityOf(view.seasonAnalysis.impactScores)

\* the match contains the target player
ContainsAccount(m) ==
  \E k \in 1..Len(m.info.participants) : m.info.participants[k].puuid = AccountPuuid

\* the number of matches among ms[1..idx] that contain the target player
ContainingUpTo(ms, idx) ==
  Cardinality({ j \in 1..idx : ContainsAccount(ms[j]) })

\* the impact of the target player in match m
AccountImpact(m) ==
  calculateMatchImpact(
    m.info.participants[FindParticipant(m.info.participants, AccountPuuid)],
    m.info.gameDuration)

\* scores has one entry per match of ms containing the target player, in the
\* order of ms
IsImpactListOf(scores, ms) ==
  /\ Len(scores) = ContainingUpTo(ms, Len(ms))
  /\ \A idx \in 1..Len(ms) :
       ContainsAccount(ms[idx]) =>
         scores[ContainingUpTo(ms, idx)] = AccountImpact(ms[idx])

\* C22: the impact list of a window contains one entry per window match that
\* contains the target player, in the same relative (most-recent-first) order
\* as the input match list: entry i is the impact of the i-th such match.
C22_ImpactListInOrder ==
  /\ IsImpactListOf(view.recentAnalysis.impactScores, FirstEntries(matchesData))
  /\ IsImpactListOf(view.seasonAnalysis.impactScores, matchesData)

\* a match without the target player between matches with different impacts:
\* the list skips it and keeps the order of the others
C22_Witness ==
  /\ pc = "loaded"
  /\ \E idx \in 2..(Len(matchesData) - 1) :
       /\ idx < RecentWindow
       /\ ~ContainsAccount(matchesData[idx])
       /\ ContainsAccount(matchesData[idx - 1])
       /\ ContainsAccount(matchesData[idx + 1])
       /\ AccountImpact(matchesData[idx - 1]) # AccountImpact(matchesData[idx + 1])
       /\ view.recentAnalysis.impactScores[idx - 1] = AccountImpact(matchesData[idx - 1])
       /\ view.recentAnalysis.impactScores[idx] = AccountImpact(matchesData[idx + 1])
  /\ Len(view.seasonAnalysis.impactScores) = Len(matchesData) - 1

\* C23: when gameDuration <= 0, rankPlayersInMatch returns an empty map: no
\* participant receives a rank, score or breakdown (the view then shows '?'
\* for rank and score).
C23_NoRankingWithoutDuration ==
  (pc = "rankDone" /\ gameDuration <= 0) =>
    /\ DOMAIN rankings = {}
    /\ \A i \in 1..Len(participants) :
         /\ participants[i].puuid \notin DOMAIN rankings
         /\ RowScoreText(rankings, participants[i].puuid) = "?"
         /\ RowRankText(rankings, participants[i].puuid) = "?"

\* a match of ten participants with kills and gold, ranked with gameDuration 0
C23_Witness ==
  /\ pc = "rankDone"
  /\ gameDuration = 0
  /\ Len(participants) = 10
  /\ \A i \in 1..10 : participants[i].kills > 0 /\ participants[i].goldEarned > 0
  /\ DOMAIN rankings = {}
  /\ RowScoreText(rankings, participants[1].puuid) = "?"
  /\ RowRankText(rankings, participants[1].puuid) = "?"

\* the sum of the games of the entries of a list of champion entries
ChampionGames(champions) ==
  SumInts([k \in 1..Len(champions) |-> champions[k].games], 1, Len(champions))

\* the sum of the games of the lanes
RECURSIVE LaneGames(_, _)
LaneGames(lanes, keys) ==
  IF keys = {} THEN 0
  ELSE LET lane == CHOOSE l \in keys : TRUE
       IN  lanes[lane].games + LaneGames(lanes, keys \ {lane})

\* wins + losses = length of the impact list = number of matches of ms that
\* contain the target player, and every lane has 0 <= wins <= games
WindowCountsAgree(a, ms) ==
  /\ a.wins >= 0
  /\ a.losses >= 0
  /\ a.wins + a.losses = Len(a.impactScores)
  /\ Len(a.impactScores) = ContainingUpTo(ms, Len(ms))
  /\ LaneGames(a.lanes, DOMAIN a.lanes) <= a.wins + a.losses
  /\ \A lane \in DOMAIN a.lanes :
       0 <= a.lanes[lane].wins /\ a.lanes[lane].wins <= a.lanes[lane].games

\* C24: in every aggregation window, after folding any list of matches:
\* wins + losses = length of the impact list = number of window matches
\* containing the target player; in the season window the sum of per-champion
\* games equals total games, the sum of per-lane games is at most total games,
\* and for every lane and champion 0 <= wins <= games.
C24_CountsAgree ==
  /\ WindowCountsAgree(view.recentAnalysis, FirstEntries(matchesData))
  /\ WindowCountsAgree(view.seasonAnalysis, matchesData)
  /\ view.seasonAnalysis.totalGames = view.seasonAnalysis.wins + view.seasonAnalysis.losses
  /\ ChampionGames(view.seasonAnalysis.champions) = view.seasonAnalysis.totalGames
  /\ LaneGames(view.seasonAnalysis.lanes, DOMAIN view.seasonAnalysis.lanes)
       <= view.seasonAnalysis.totalGames
  /\ \A k \in 1..Len(view.seasonAnalysis.champions) :
       /\ 0 <= view.seasonAnalysis.champions[k].wins
       /\ view.seasonAnalysis.champions[k].wins <= view.seasonAnalysis.champions[k].games

\* a season with a match without the target player, with wins and losses:
\* fewer counted games than matches, and the champion games add up to them
C24_Witness ==
  /\ pc = "loaded"
  /\ view.seasonAnalysis.totalGames > 0
  /\ view.seasonAnalysis.totalGames < Len(matchesData)
  /\ view.seasonAnalysis.wins > 0
  /\ view.seasonAnalysis.losses > 0
  /\ ChampionGames(view.seasonAnalysis.champions) = view.seasonAnalysis.totalGames
  /\ Len(view.seasonAnalysis.impactScores) = view.seasonAnalysis.totalGames

\* a season with a match without a role: the lane games add up to less than
\* the total games
C24_WitnessLanes ==
  /\ pc = "loaded"
  /\ view.seasonAnalysis.totalGames > 0
  /\ LaneGames(view.seasonAnalysis.lanes, DOMAIN view.seasonAnalysis.lanes)
       < view.seasonAnalysis.totalGames
  /\ Len(view.seasonAnalysis.champions) >= 2

MaxWithoutBaseline ==
  5

\* C25: whenever the recent window's impact list has at most 5 entries
\* (including 0), the trend is exactly 0, because the baseline falls back to
\* the window average, which then equals the average of the first-5 slice.
C25_NoTrendUpToFive ==
  Len(view.recentAnalysis.impactScores) <= MaxWithoutBaseline =>
    /\ view.recentAnalysis.recentTrend = Num(0)
    /\ view.analysis.recentTrend = Num(0)
    /\ view.recentAnalysis.avgImpact
         = AverageOrZero(Slice(view.recentAnalysis.impactScores, 0, 5))

\* five different impact scores with a positive average: the trend is 0
C25_Witness ==
  /\ pc = "loaded"
  /\ Len(view.recentAnalysis.impactScores) = 5
  /\ view.recentAnalysis.impactScores[1] # view.recentAnalysis.impactScores[5]
  /\ Gt(view.recentAnalysis.avgImpact, Num(0))
  /\ view.recentAnalysis.recentTrend = Num(0)

\* a window of matches none of which contains the target player: the trend
\* is 0
C25_WitnessEmpty ==
  /\ pc = "loaded"
  /\ Len(matchesData) > 0
  /\ Len(view.recentAnalysis.impactScores) = 0
  /\ view.recentAnalysis.recentTrend = Num(0)

\* the metrics of the feedback rules
Metrics ==
  {"avgImpact", "winrate", "avgKDA", "deaths", "trend", "stability"}

\* the texts a metric can add to the strengths pool
StrengthTexts(metric) ==
  CASE metric = "avgImpact" ->
         {"Dominujacy wplyw na gre", "Wysoki Impact", "Solidny wklad w gre druzyny"}
    [] metric = "winrate" ->
         {"Fenomenalny winrate", "Dobry winrate", "Pozytywny stosunek zwyciestw"}
    [] metric = "avgKDA" ->
         {"Wybitne KDA", "Swietne KDA", "Dobre proporcje kills/deaths"}
    [] metric = "deaths" -> {"Tylko smierci/gre", "Kontrolujesz ilosc smierci"}
    [] metric = "trend" -> {"Forma mocno w gore", "Ostatnie gry powyzej sredniej"}
    [] metric = "stability" -> {"Bardzo konsekwentna gra", "Stabilna forma"}

\* the texts a metric can add to the improvements pool
ImprovementTexts(metric) ==
  CASE metric = "avgImpact" ->
         {"Niski Impact", "Impact ponizej sredniej", "Przecietny wplyw"}
    [] metric = "winrate" ->
         {"Winrate - przeanalizuj przegrane mecze",
          "Winrate - sprawdz szczegolowa analize", "Blisko 50% WR"}
    [] metric = "avgKDA" -> {"KDA - momenty do poprawy", "Niskie KDA"}
    [] metric = "deaths" ->
         {"smierci/gre", "Za duzo smierci", "Smierci do optymalizacji"}
    [] metric = "trend" -> {"Forma spada", "Lekki spadek formy"}
    [] metric = "stability" -> {"Wahania formy", "Niestabilna forma"}

\* the number of items of the pool whose text is one of texts
ItemsOf(pool, texts) ==
  Cardinality({ k \in 1..Len(pool) : pool[k].text \in texts })

\* C26: for every aggregation input, no single metric (average impact, win
\* rate, average KDA ratio, average deaths, trend, stability) contributes an
\* item to both the strengths pool and the improvements pool, and each metric
\* contributes at most one item to a pool.
C26_MetricOnOneSide ==
  \A metric \in Metrics :
    /\ ItemsOf(view.allStrengths, StrengthTexts(metric)) <= 1
    /\ ItemsOf(view.allImprovements, ImprovementTexts(metric)) <= 1
    /\ ItemsOf(view.allStrengths, StrengthTexts(metric))
         + ItemsOf(view.allImprovements, ImprovementTexts(metric)) <= 1

\* an analysis with two metrics in the strengths pool and two others in the
\* improvements pool, the stability among the latter
C26_Witness ==
  /\ pc = "loaded"
  /\ ItemsOf(view.allImprovements, ImprovementTexts("stability")) = 1
  /\ ItemsOf(view.allStrengths, StrengthTexts("stability")) = 0
  /\ Cardinality({ metric \in Metrics :
                     ItemsOf(view.allStrengths, StrengthTexts(metric)) = 1 }) >= 2
  /\ Cardinality({ metric \in Metrics :
                     ItemsOf(view.allImprovements, ImprovementTexts(metric)) = 1 }) >= 2

\* C27: the result of rankPlayersInMatch (ranks, scores, breakdowns) does not
\* depend on the team-objective argument: two calls that differ only in the
\* teams' baron/dragon/tower totals (or omit them) return equal maps.
C27_TeamsDoNotMatter ==
  pc = "rankDone" =>
    \A other \in TeamsInputs :
      rankPlayersInMatch(participants, gameDuration, other) = rankings

\* a match ranked with teams that have barons, dragons and towers: the map is
\* the one of the call without the argument, and the totals were read
C27_Witness ==
  /\ pc = "rankDone"
  /\ gameDuration > 0
  /\ teams.given
  /\ teamObjectives(teams)[100].barons > 0
  /\ teamObjectives(teams)[200].towers > teamObjectives(teams)[100].towers
  /\ teamObjectives(TeamsOmitted) = <<>>
  /\ \E i \in 1..10 : participants[i].teamId = 100 /\ participants[i].kills > 0
  /\ \E i \in 1..10 : Lt(rankings[participants[i].puuid].score, Num(100))
  /\ rankings = rankPlayersInMatch(participants, gameDuration, TeamsOmitted)

\* C28 (as claimed): in the proxy server, under any interleaving of concurrent
\* incoming requests, any two upstream requests issued through
\* rateLimitedFetch start at least MIN_REQUEST_INTERVAL (50 ms) apart, i.e. at
\* most 20 upstream requests per second.
C28_FetchesSpacedOut ==
  \A i \in 1..Len(proxy.started), j \in 1..Len(proxy.started) :
    i < j => proxy.started[j] - proxy.started[i] >= MIN_REQUEST_INTERVAL

\* request r was answered with the match fetched from the upstream API
FetchedByRequest(r, key) ==
  /\ proxy.req[r].pc = "done"
  /\ proxy.req[r].source = "upstream"
  /\ proxy.req[r].key = key
  /\ proxy.req[r].status = 200
  /\ proxy.req[r].body = MatchJson(key)

\* every answer from the cache repeats the answer of a successful fetch of the
\* same key that ended less than CACHE_TTL earlier
CacheHitsAreFresh ==
  \A r \in Requests :
    (proxy.req[r].pc = "done" /\ proxy.req[r].source = "cache") =>
      /\ proxy.req[r].status = 200
      /\ proxy.req[r].body = MatchJson(proxy.req[r].key)
      /\ proxy.req[r].at - proxy.req[r].cachedTime < CACHE_TTL
      /\ \E q \in Requests :
           /\ FetchedByRequest(q, proxy.req[r].key)
           /\ proxy.req[q].at = proxy.req[r].cachedTime
           /\ proxy.req[q].at <= proxy.req[r].at

\* every entry of the cache is the answer of a successful fetch of its key,
\* with the time at which that fetch ended
EntriesComeFromFetches ==
  \A key \in DOMAIN proxy.matchCache :
    /\ proxy.matchCache[key].data = MatchJson(key)
    /\ \E q \in Requests :
         /\ FetchedByRequest(q, key)
         /\ proxy.req[q].at = proxy.matchCache[key].time

\* a step that answers with an error, answers from the cache, or starts or
\* delays a fetch leaves the cache as it is: only a successful fetch writes
OnlySuccessWrites ==
  proxy'.matchCache # proxy.matchCache =>
    \E r \in Requests :
      /\ proxy.req[r].pc = "fetching"
      /\ proxy'.req[r].pc = "done"
      /\ proxy'.req[r].source = "upstream"
      /\ proxy'.req[r].status = 200
      /\ proxy'.matchCache = (proxy.req[r].key :>
                                [data |-> proxy'.req[r].body, time |-> proxy.now])
                             @@ proxy.matchCache

\* an answer from the cache starts no upstream request
HitsStartNoFetch ==
  \A r \in Requests :
    (proxy.req[r].pc = "new" /\ proxy'.req[r].source = "cache") =>
      proxy'.started = proxy.started /\ proxy'.lastRequestTime = proxy.lastRequestTime

\* C29: for GET /api/riot/match/:matchId, a response is served from matchCache
\* without an upstream request only if an entry for the same (matchId, routing)
\* key was stored less than CACHE_TTL (5 minutes) earlier; an entry is stored
\* only after a successful upstream fetch, so a failed fetch never creates or
\* replaces a cache entry and an error response is never served from the cache.
C29_CacheServesFreshSuccesses ==
  /\ [](CacheHitsAreFresh /\ EntriesComeFromFetches)
  /\ [][OnlySuccessWrites]_vars
  /\ [][HitsStartNoFetch]_vars

\* a fetch of a key succeeded, a later fetch of the same key failed, and a
\* third request for the key was then answered from the cache with the entry of
\* the first
C29_Witness ==
  \E r1 \in Requests, r2 \in Requests, r3 \in Requests :
    /\ FetchedByRequest(r1, proxy.req[r3].key)
    /\ proxy.req[r2].pc = "done"
    /\ proxy.req[r2].source = "error"
    /\ proxy.req[r2].key = proxy.req[r1].key
    /\ proxy.req[r2].at > proxy.req[r1].at
    /\ proxy.req[r3].pc = "done"
    /\ proxy.req[r3].source = "cache"
    /\ proxy.req[r3].at >= proxy.req[r2].at
    /\ proxy.req[r3].cachedTime = proxy.req[r1].at
    /\ Len(proxy.started) = 2


----------------------------------------------------------------------------
(* C30: the search flow of HomePage.onSearch.                               *)

\* the text has a name and a tag: a first '#' with a character other than a
\* space before it, and one after it and before the next '#'
HasNameAndTag(text) ==
  \E i \in 1..Len(text) :
    /\ text[i] = "#"
    /\ \A j \in 1..(i - 1) : text[j] # "#"
    /\ \E j \in 1..(i - 1) : text[j] # " "
    /\ \E k \in (i + 1)..Len(text) :
         /\ text[k] # " "
         /\ \A m \in (i + 1)..k : text[m] # "#"

\* the awaits after the account lookup
InnerAwaits ==
  {"summoner", "leagues", "matchIds", "masteries"}

\* a submit of a text without both a name and a tag sets the format error,
\* issues no request and starts no search
BadInputIsRejected ==
  (onSearch /\ ~HasNameAndTag(home.riotId)) =>
     /\ home'.error = Some(FormatError)
     /\ home'.issued = <<>>
     /\ home'.pc = "idle"
     /\ ~home'.loading
     /\ home'.currentView = "home"

\* a failed account lookup ends the search with the error set, on the home
\* view, after the account request alone
AccountFailureSetsError ==
  (accountResponds /\ "account" \in home'.failed) =>
     /\ home'.error = Some(HttpError)
     /\ home'.currentView = "home"
     /\ home'.profileData = Null
     /\ home'.issued = <<"account/by-riot-id">>
     /\ home'.pc = "idle"

\* while an error is shown, the view is the home page without profile data
ErrorNeverNavigates ==
  home.error # Null => (home.currentView = "home" /\ home.profileData = Null)

\* after a successful account lookup every answer, failed or not, leads to
\* the next request without an error, and the last one opens the profile
InnerFailureGoesOn ==
  (home.pc \in InnerAwaits /\ home'.pc # home.pc) =>
     /\ home'.error = Null
     /\ \/ home'.pc \in InnerAwaits /\ home'.loading /\ home'.currentView = "home"
        \/ home'.pc = "idle" /\ home'.currentView = "profile"
     /\ home.pc = "masteries" => home'.currentView = "profile"

\* the opened profile holds, for each request, the answer or its default
ProfileHoldsDefaults ==
  home.currentView = "profile" =>
     /\ home.profileData # Null
     /\ "account" \notin home.failed
     /\ Len(home.issued) = 5
     /\ LET result == home.profileData[1]
            account == AccountOf(home.gameName, home.tagLine)
        IN  /\ result.account = account
            /\ result.summoner =
                 IF "summoner" \in home.failed
                 THEN [id |-> "", puuid |-> account.puuid, name |-> account.gameName,
                       summonerLevel |-> 0, profileIconId |-> 0]
                 ELSE SummonerOf(account)
            /\ result.leagues =
                 IF "leagues" \in home.failed THEN <<>> ELSE LeaguesFound
            /\ result.matchIds =
                 IF "matchIds" \in home.failed THEN <<>> ELSE MatchIdsFound
            /\ result.masteries =
                 IF "masteries" \in home.failed THEN <<>> ELSE MasteriesFound

\* loading is true exactly while a search is suspended at an await
LoadingOnlyWhileSearching ==
  home.loading <=> home.pc # "idle"

\* C30: a submit of a text without both a name and a tag sets the format
\* error and issues no request; a failed account lookup sets the error and
\* the view stays the home page; a failed summoner, league, match list or
\* mastery request is replaced by its default (placeholder summoner, empty
\* list) and the profile is opened all the same; once a search is over,
\* loading is false
C30_SearchFlow ==
  /\ [](ErrorNeverNavigates /\ ProfileHoldsDefaults /\ LoadingOnlyWhileSearching)
  /\ [][BadInputIsRejected]_vars
  /\ [][AccountFailureSetsError]_vars
  /\ [][InnerFailureGoesOn]_vars

\* a search in which the four requests after the account lookup all failed
\* has opened the profile with the defaults, loading false
C30_Witness ==
  /\ home.currentView = "profile"
  /\ home.failed = InnerAwaits
  /\ home.profileData # Null
  /\ home.profileData[1].summoner.id = ""
  /\ home.profileData[1].masteries = <<>>
  /\ ~home.loading

\* a submit without a tag has set the format error and issued no request
C30_WitnessBadInput ==
  /\ home.error = Some(FormatError)
  /\ home.riotId = <<"N", "#", " ">>
  /\ home.issued = <<>>
  /\ ~home.loading

\* a failed account lookup has set the error on the home view
C30_WitnessAccountFailed ==
  /\ home.error = Some(HttpError)
  /\ home.failed = {"account"}
  /\ home.currentView = "home"
  /\ ~home.loading

====
